---- MODULE Spec2Model ----
(***************************************************************************)
(* A model of excel_reader: the grid builder, the block splitter, the      *)
(* header parser, the cleaner/scorer and the parse_file pipeline that      *)
(* drives them.                                                            *)
(*                                                                         *)
(* Conventions.                                                            *)
(*  - A string is a sequence of one-character strings (<<"A","_","1">>),   *)
(*    so that strip(), str.format() and float() act on characters.         *)
(*  - A cell value is a record [na, s]: na is pd.isna(value), s is         *)
(*    str(value).  None has s = "None"; a cell holding text or a number    *)
(*    has na = FALSE and s its str() form.                                 *)
(*  - A DataFrame or numpy matrix is a sequence of rows, each a sequence   *)
(*    of cells.  The code's indices are 0-based: iloc(M, r, c) reads row r *)
(*    and column c counted from 0.                                         *)
(*  - A character outside ASCII is written by its code point: "U+5E74"    *)
(*    is the one character U+5E74.                                         *)
(*  - Floats are modelled by exact rationals [n, d] (d > 0); configured    *)
(*    fractions are given in hundredths.                                   *)
(***************************************************************************)
EXTENDS Integers, Sequences, FiniteSets, TLC

VARIABLES
    pc,                 \* control point of parse_file
    config,             \* ParserConfig
    file_format,        \* FileFormat detected for the input
    n_sheets,           \* number of entries of sheet_data
    sheet_i,            \* entries of sheet_data already iterated
    df_raw,             \* the current sheet's DataFrame
    metadata,           \* the current sheet's metadata dict
    O, B, S, T,         \* the current sheet's derived matrices
    blocks,             \* the current sheet's blocks
    header_hierarchies, \* block position -> HeaderHierarchy
    scores,             \* block position -> TableScore
    main_block_id,      \* result of identify_main_table
    block_i,            \* blocks of the sheet already emitted
    all_dfs,            \* df1, df2, ... (position k holds df{k})
    all_metas,          \* TableMeta of df1, df2, ...
    log,                \* events passed to logger.log, in order
    manifest,           \* the Manifest written at the end of the run
    ext,                \* Path(file_path).suffix
    sheet_name,         \* the sheet_name argument
    error,              \* the exception parse_file raised, "" when none
    files,              \* directories and fixed files created under output_dir
    sinks,              \* the logger's plain-text and JSON-lines sinks
    csv_files,          \* names of the files in the run's csv directory
    df_counter,         \* number of the next df key
    all_keys,           \* keys of all_dfs in insertion order (k for "df{k}")
    exports,            \* the export_csv calls that wrote a file, in order
    writers,            \* export_csv calls in progress, one per worker
    scan_k,             \* _connected_components: cells of the scan already passed
    flood_queue,        \* _bfs_connected: queue, the deque of cells to expand
    flood_visited,      \* the cells whose visited flag is set
    flood_box,          \* _bfs_connected: <<min_r, max_r, min_c, max_c>>
    component,          \* the cells the running _bfs_connected call has marked
    components,         \* per finished call: the cells it marked and its Block
    marks,              \* cell -> number of times its visited flag was set
    run_dirs,           \* per parse_file call of the process: its log directory
    handlers,           \* handlers of logging.getLogger("excel_reader_txt"), by directory
    txt_files,          \* log directory -> lines of its run.log.txt
    jsonl_files,        \* log directory -> lines of its run.log.jsonl
    logged             \* per parse_file call: the number of events it logged

vars == <<pc, config, file_format, n_sheets, sheet_i, df_raw, metadata, O, B, S, T,
          blocks, header_hierarchies, scores, main_block_id, block_i,
          all_dfs, all_metas, log, manifest,
          ext, sheet_name, error, files, sinks, csv_files, df_counter, all_keys,
          exports, writers,
          scan_k, flood_queue, flood_visited, flood_box, component, components, marks,
          run_dirs, handlers, txt_files, jsonl_files, logged>>

\* The variables of the call's arguments and of its effects outside memory.
call_vars == <<ext, sheet_name>>

run_vars == <<error, files, sinks>>

key_vars == <<csv_files, df_counter, all_keys, exports, writers>>

\* The variables of the flood fill taken one loop iteration at a time.
flood_vars == <<scan_k, flood_queue, flood_visited, flood_box, component, components, marks>>

\* The variables of the loggers of successive calls in one process.
logger_vars == <<run_dirs, handlers, txt_files, jsonl_files, logged>>

step_vars == <<flood_vars, logger_vars>>

-----------------------------------------------------------------------------
(* Arithmetic helpers *)

Min(a, b) == IF a <= b THEN a ELSE b

Max(a, b) == IF a >= b THEN a ELSE b

RECURSIVE Gcd(_, _)
Gcd(a, b) == IF b = 0 THEN a ELSE Gcd(b, a % b)

\* The rational n / d (d > 0) in lowest terms.
Rat(n, d) == LET g == Gcd(IF n < 0 THEN -n ELSE n, d) IN [n |-> n \div g, d |-> d \div g]

RatAdd(a, b) == Rat(a.n * b.d + b.n * a.d, a.d * b.d)

RatScale(k, a) == Rat(k * a.n, a.d)

RatOneMinus(a) == Rat(a.d - a.n, a.d)

RatLt(a, b) == a.n * b.d < b.n * a.d

RatEq(a, b) == a.n * b.d = b.n * a.d

RECURSIVE SeqSum(_)
SeqSum(s) == IF s = <<>> THEN 0 ELSE Head(s) + SeqSum(Tail(s))

Range(s) == {s[i] : i \in 1..Len(s)}

-----------------------------------------------------------------------------
(* Cell values and Python string operations *)

NoneVal == [na |-> TRUE, s |-> <<"N", "o", "n", "e">>]

Str(s) == [na |-> FALSE, s |-> s]

notna(val) == ~val.na

str(val) == val.s

Whitespace == {" ", "\t", "\n", "\r"}

RECURSIVE lstrip(_)
lstrip(s) == IF s # <<>> /\ Head(s) \in Whitespace THEN lstrip(Tail(s)) ELSE s

RECURSIVE rstrip(_)
rstrip(s) ==
    IF s # <<>> /\ s[Len(s)] \in Whitespace THEN rstrip(SubSeq(s, 1, Len(s) - 1)) ELSE s

strip(s) == rstrip(lstrip(s))

Digits == {"0", "1", "2", "3", "4", "5", "6", "7", "8", "9"}

\* digitpart ::= digit (["_"] digit)*
IsDigitPart(s) ==
    /\ s # <<>>
    /\ \A i \in 1..Len(s) : s[i] \in Digits \cup {"_"}
    /\ s[1] \in Digits /\ s[Len(s)] \in Digits
    /\ \A i \in 1..(Len(s) - 1) : ~(s[i] = "_" /\ s[i + 1] = "_")

\* number ::= [digitpart] "." digitpart | digitpart ["."]
IsPointNumber(s) ==
    \/ IsDigitPart(s)
    \/ \E k \in 1..Len(s) :
          /\ s[k] = "."
          /\ LET left == SubSeq(s, 1, k - 1)
                 right == SubSeq(s, k + 1, Len(s))
             IN \/ (left = <<>> \/ IsDigitPart(left)) /\ IsDigitPart(right)
                \/ IsDigitPart(left) /\ right = <<>>

Unsigned(s) == IF s # <<>> /\ s[1] \in {"+", "-"} THEN Tail(s) ELSE s

\* floatnumber ::= number [("e" | "E") ["+" | "-"] digitpart]
IsFloatNumber(s) ==
    \/ IsPointNumber(s)
    \/ \E k \in 1..Len(s) :
          /\ s[k] \in {"e", "E"}
          /\ IsPointNumber(SubSeq(s, 1, k - 1))
          /\ IsDigitPart(Unsigned(SubSeq(s, k + 1, Len(s))))

LowerChar(ch) ==
    CASE ch = "I" -> "i" [] ch = "N" -> "n" [] ch = "F" -> "f" [] ch = "T" -> "t"
      [] ch = "Y" -> "y" [] ch = "A" -> "a" [] OTHER -> ch

\* "inf", "infinity" and "nan", in any case
IsInfOrNan(s) ==
    [i \in 1..Len(s) |-> LowerChar(s[i])] \in
        {<<"i", "n", "f">>, <<"n", "a", "n">>,
         <<"i", "n", "f", "i", "n", "i", "t", "y">>}

\* float(s) does not raise
float_parses(s) ==
    LET u == Unsigned(strip(s)) IN IsFloatNumber(u) \/ IsInfOrNan(u)

_is_numeric(s) ==
    float_parses(SelectSeq(s, LAMBDA ch : ch \notin {",", "%", "U+00A5", "$"}))

DateIndicators == {"-", "/", "U+5E74", "U+6708", "U+65E5", ":", "T"}

_is_date_like(s) == (\E i \in 1..Len(s) : s[i] \in DateIndicators) /\ Len(s) >= 6

-----------------------------------------------------------------------------
(* Matrices *)

NRows(M) == Len(M)

NCols(M) == IF Len(M) = 0 THEN 0 ELSE Len(M[1])

iloc(M, r, c) == M[r + 1][c + 1]

InShape(M, r, c) == 0 <= r /\ r < NRows(M) /\ 0 <= c /\ c < NCols(M)

-----------------------------------------------------------------------------
(* grid_builder.py *)

\* build_occupancy_matrix without the loop over hidden_cols
build_occupancy_matrix_rows_only(df, md) ==
    [r \in 1..NRows(df) |->
        [c \in 1..NCols(df) |->
            IF \E h \in md.hidden_rows : 0 <= h /\ h < NRows(df) /\ h = r - 1
            THEN 0
            ELSE IF notna(df[r][c]) /\ strip(str(df[r][c])) # <<>> THEN 1 ELSE 0]]

build_occupancy_matrix(df, md) ==
    [r \in 1..NRows(df) |->
        [c \in 1..NCols(df) |->
            IF \/ \E h \in md.hidden_rows : 0 <= h /\ h < NRows(df) /\ h = r - 1
               \/ \E h \in md.hidden_cols : 0 <= h /\ h < NCols(df) /\ h = c - 1
            THEN 0
            ELSE IF notna(df[r][c]) /\ strip(str(df[r][c])) # <<>> THEN 1 ELSE 0]]

\* B[r, c] = <<top, right, bottom, left>>
build_border_matrix(df, md) ==
    [r \in 1..NRows(df) |->
        [c \in 1..NCols(df) |->
            IF <<r - 1, c - 1>> \in DOMAIN md.borders
            THEN LET info == md.borders[<<r - 1, c - 1>>]
                 IN <<IF info.top THEN 1 ELSE 0, IF info.right THEN 1 ELSE 0,
                      IF info.bottom THEN 1 ELSE 0, IF info.left THEN 1 ELSE 0>>
            ELSE <<0, 0, 0, 0>>]]

build_type_matrix(df) ==
    [r \in 1..NRows(df) |->
        [c \in 1..NCols(df) |->
            LET val == df[r][c] IN
            IF ~notna(val) \/ strip(str(val)) = <<>> THEN 0
            ELSE IF _is_numeric(str(val)) THEN 2
            ELSE IF _is_date_like(str(val)) THEN 3
            ELSE 1]]

\* S[r, c] as a rational.  Bold adds 0.5 and a fill 0.3; for xlsb and csv the
\* first ten rows get 0.2 times the row's share of non-numeric text cells.
build_style_matrix(df, md, format) ==
    [r \in 1..NRows(df) |->
        LET text_count == Cardinality({cc \in 1..NCols(df) :
                              /\ notna(df[r][cc])
                              /\ strip(str(df[r][cc])) # <<>>
                              /\ ~_is_numeric(strip(str(df[r][cc])))})
            bonus == IF format \in {"xlsb", "csv"} /\ r - 1 < Min(10, NRows(df))
                     THEN RatScale(20, Rat(text_count, 100 * Max(NCols(df), 1)))
                     ELSE Rat(0, 1)
        IN [c \in 1..NCols(df) |->
               LET key == <<r - 1, c - 1>>
                   styled == IF key \in DOMAIN md.styles
                             THEN (IF md.styles[key].bold THEN 50 ELSE 0)
                                  + (IF md.styles[key].bg_color THEN 30 ELSE 0)
                             ELSE 0
               IN RatAdd(Rat(styled, 100), bonus)]]

-----------------------------------------------------------------------------
(* block_splitter.py *)

Block(r0, r1, c0, c1) == [r0 |-> r0, r1 |-> r1, c0 |-> c0, c1 |-> c1, block_id |-> 0]

height(b) == b.r1 - b.r0

width(b) == b.c1 - b.c0

area(b) == height(b) * width(b)

\* np.sum(O[r0:r1, c0:c1])
region_sum(Om, b) ==
    Cardinality({rc \in (b.r0..(b.r1 - 1)) \X (b.c0..(b.c1 - 1)) :
                    iloc(Om, rc[1], rc[2]) = 1})

\* neighbour_offsets reaching one column further on each side
neighbour_offsets_one_further(cfg) ==
    LET W == 2 * cfg.hole_tolerance_cols + 5
        H == 2 * cfg.hole_tolerance_rows + 3
        all == [k \in 1..(H * W) |->
                   <<((k - 1) \div W) - cfg.hole_tolerance_rows - 1,
                     ((k - 1) % W) - cfg.hole_tolerance_cols - 2>>]
    IN SelectSeq(all, LAMBDA d : d # <<0, 0>>)

\* neighbour_offsets looking down and to the right only
neighbour_offsets_down_right(cfg) ==
    LET W == cfg.hole_tolerance_cols + 2
        H == cfg.hole_tolerance_rows + 2
        all == [k \in 1..(H * W) |-> <<(k - 1) \div W, (k - 1) % W>>]
    IN SelectSeq(all, LAMBDA d : d # <<0, 0>>)

\* The (dr, dc) pairs in the order the two nested loops visit them, the
\* origin left out.
neighbour_offsets(cfg) ==
    LET W == 2 * cfg.hole_tolerance_cols + 3
        H == 2 * cfg.hole_tolerance_rows + 3
        all == [k \in 1..(H * W) |->
                   <<((k - 1) \div W) - cfg.hole_tolerance_rows - 1,
                     ((k - 1) % W) - cfg.hole_tolerance_cols - 1>>]
    IN SelectSeq(all, LAMBDA d : d # <<0, 0>>)

\* The while loop of _bfs_connected: box is <<min_r, max_r, min_c, max_c>>.
RECURSIVE bfs_loop(_, _, _, _, _)
bfs_loop(Om, offsets, queue, visited, box) ==
    IF queue = <<>> THEN [box |-> box, visited |-> visited]
    ELSE LET r == Head(queue)[1]
             c == Head(queue)[2]
             box2 == <<Min(box[1], r), Max(box[2], r), Min(box[3], c), Max(box[4], c)>>
             hits == SelectSeq(offsets, LAMBDA d :
                        /\ InShape(Om, r + d[1], c + d[2])
                        /\ <<r + d[1], c + d[2]>> \notin visited
                        /\ iloc(Om, r + d[1], c + d[2]) = 1)
             new == [k \in 1..Len(hits) |-> <<r + hits[k][1], c + hits[k][2]>>]
         IN bfs_loop(Om, offsets, Tail(queue) \o new, visited \cup Range(new), box2)

_bfs_connected(Om, cfg, visited, start_r, start_c) ==
    LET done == bfs_loop(Om, neighbour_offsets(cfg), <<<<start_r, start_c>>>>,
                         visited \cup {<<start_r, start_c>>},
                         <<start_r, start_r, start_c, start_c>>)
        r0 == Max(0, done.box[1] - cfg.hole_tolerance_rows)
        r1 == Min(NRows(Om), done.box[2] + cfg.hole_tolerance_rows + 1)
        c0 == Max(0, done.box[3] - cfg.hole_tolerance_cols)
        c1 == Min(NCols(Om), done.box[4] + cfg.hole_tolerance_cols + 1)
    IN [block |-> Block(r0, r1, c0, c1), visited |-> done.visited]

\* The scan of _connected_components from cell number k (row-major) on.
RECURSIVE scan_components(_, _, _, _, _)
scan_components(Om, cfg, k, visited, found) ==
    IF k >= NRows(Om) * NCols(Om) THEN found
    ELSE LET r == k \div NCols(Om)
             c == k % NCols(Om)
         IN IF iloc(Om, r, c) = 1 /\ <<r, c>> \notin visited
            THEN LET res == _bfs_connected(Om, cfg, visited, r, c)
                 IN scan_components(Om, cfg, k + 1, res.visited, Append(found, res.block))
            ELSE scan_components(Om, cfg, k + 1, visited, found)

_connected_components(Om, cfg) == scan_components(Om, cfg, 0, {}, <<>>)

\* border_count / max(total_count, 1); Bm.present is "B is not None"
_calculate_border_completeness(b, Bm) ==
    IF ~Bm.present \/ NRows(Bm.m) * NCols(Bm.m) = 0 THEN Rat(0, 1)
    ELSE LET cells == {rc \in (b.r0..(b.r1 - 1)) \X (b.c0..(b.c1 - 1)) :
                          rc[1] < NRows(Bm.m) /\ rc[2] < NCols(Bm.m)}
             flags(rc) ==
                 LET borders == iloc(Bm.m, rc[1], rc[2])
                 IN (IF rc[1] = b.r0 THEN borders[1] ELSE 0)
                    + (IF rc[1] = b.r1 - 1 THEN borders[3] ELSE 0)
                    + (IF rc[2] = b.c0 THEN borders[4] ELSE 0)
                    + (IF rc[2] = b.c1 - 1 THEN borders[2] ELSE 0)
             count[n \in 0..4] == Cardinality({rc \in cells : flags(rc) = n})
             border_count == count[1] + 2 * count[2] + 3 * count[3] + 4 * count[4]
         IN Rat(border_count, Max(4 * Cardinality(cells), 1))

_split_by_border_contours(b, Om, Bm) == <<b>>

RECURSIVE enhance_loop(_, _, _, _)
enhance_loop(bs, Om, Bm, enhanced) ==
    IF bs = <<>> THEN enhanced
    ELSE IF RatLt(Rat(30, 100), _calculate_border_completeness(Head(bs), Bm))
         THEN enhance_loop(Tail(bs), Om, Bm, Append(enhanced, Head(bs)))
         ELSE enhance_loop(Tail(bs), Om, Bm,
                           enhanced \o _split_by_border_contours(Head(bs), Om, Bm))

_enhance_with_borders(bs, Om, Bm) ==
    LET enhanced == enhance_loop(bs, Om, Bm, <<>>)
    IN IF enhanced # <<>> THEN enhanced ELSE bs

_calculate_rectangularity(b, Om) == Rat(region_sum(Om, b), Max(area(b), 1))

\* The loop over empty_rows of _try_split_by_gaps: res is <<start, splits>>.
RECURSIVE row_cut_loop(_, _, _, _, _)
row_cut_loop(b, cfg, empty_rows, start, splits) ==
    IF empty_rows = <<>> THEN <<start, splits>>
    ELSE LET empty_r == Head(empty_rows)
         IN row_cut_loop(b, cfg, Tail(empty_rows), empty_r + 1,
                IF empty_r - start >= cfg.min_block_height
                THEN Append(splits, Block(b.r0 + start, b.r0 + empty_r, b.c0, b.c1))
                ELSE splits)

RECURSIVE col_cut_loop(_, _, _, _, _)
col_cut_loop(b, cfg, empty_cols, start, splits) ==
    IF empty_cols = <<>> THEN <<start, splits>>
    ELSE LET empty_c == Head(empty_cols)
         IN col_cut_loop(b, cfg, Tail(empty_cols), empty_c + 1,
                IF empty_c - start >= cfg.min_block_width
                THEN Append(splits, Block(b.r0, b.r1, b.c0 + start, b.c0 + empty_c))
                ELSE splits)

\* The members of a set of indices in ascending order.
RECURSIVE ascending(_)
ascending(X) ==
    IF X = {} THEN <<>>
    ELSE LET m == CHOOSE x \in X : \A y \in X : x <= y
         IN <<m>> \o ascending(X \ {m})

\* _try_split_by_gaps trying the columns before the rows
_try_split_by_gaps_columns_first(b, Om, cfg) ==
    LET n_rows == height(b)
        n_cols == width(b)
        empty_rows == ascending({r \in 0..(n_rows - 1) :
                          \A c \in 0..(n_cols - 1) : iloc(Om, b.r0 + r, b.c0 + c) = 0})
        empty_cols == ascending({c \in 0..(n_cols - 1) :
                          \A r \in 0..(n_rows - 1) : iloc(Om, b.r0 + r, b.c0 + c) = 0})
        by_rows == LET res == row_cut_loop(b, cfg, empty_rows, 0, <<>>)
                   IN IF b.r1 - (b.r0 + res[1]) >= cfg.min_block_height
                      THEN Append(res[2], Block(b.r0 + res[1], b.r1, b.c0, b.c1))
                      ELSE res[2]
        by_cols == LET res == col_cut_loop(b, cfg, empty_cols, 0, <<>>)
                   IN IF b.c1 - (b.c0 + res[1]) >= cfg.min_block_width
                      THEN Append(res[2], Block(b.r0, b.r1, b.c0 + res[1], b.c1))
                      ELSE res[2]
    IN IF Len(empty_cols) >= 2 /\ Len(by_cols) > 1 THEN by_cols
       ELSE IF Len(empty_rows) >= 2 /\ Len(by_rows) > 1 THEN by_rows
       ELSE <<b>>

_try_split_by_gaps(b, Om, cfg) ==
    LET n_rows == height(b)
        n_cols == width(b)
        empty_rows == ascending({r \in 0..(n_rows - 1) :
                          \A c \in 0..(n_cols - 1) : iloc(Om, b.r0 + r, b.c0 + c) = 0})
        empty_cols == ascending({c \in 0..(n_cols - 1) :
                          \A r \in 0..(n_rows - 1) : iloc(Om, b.r0 + r, b.c0 + c) = 0})
        by_rows == LET res == row_cut_loop(b, cfg, empty_rows, 0, <<>>)
                   IN IF b.r1 - (b.r0 + res[1]) >= cfg.min_block_height
                      THEN Append(res[2], Block(b.r0 + res[1], b.r1, b.c0, b.c1))
                      ELSE res[2]
        by_cols == LET res == col_cut_loop(b, cfg, empty_cols, 0, <<>>)
                   IN IF b.c1 - (b.c0 + res[1]) >= cfg.min_block_width
                      THEN Append(res[2], Block(b.r0, b.r1, b.c0 + res[1], b.c1))
                      ELSE res[2]
    IN IF Len(empty_rows) >= 2 /\ Len(by_rows) > 1 THEN by_rows
       ELSE IF Len(empty_cols) >= 2 /\ Len(by_cols) > 1 THEN by_cols
       ELSE <<b>>

\* mdl_weights[0] * (1 - density) + mdl_weights[1] * (1 - rectangularity)
shape_cost(b, Om, cfg) ==
    RatAdd(RatScale(cfg.mdl_weights[1],
                    RatOneMinus(Rat(region_sum(Om, b), Max(area(b), 1)))),
           RatScale(cfg.mdl_weights[2],
                    RatOneMinus(_calculate_rectangularity(b, Om))))

RECURSIVE total_shape_cost(_, _, _)
total_shape_cost(bs, Om, cfg) ==
    IF bs = <<>> THEN Rat(0, 1)
    ELSE RatAdd(shape_cost(Head(bs), Om, cfg), total_shape_cost(Tail(bs), Om, cfg))

\* _mdl_split_decision splitting on equal costs too
_mdl_split_decision_on_ties(b, Om, cfg) ==
    LET density == Rat(region_sum(Om, b), Max(area(b), 1))
        rectangularity == _calculate_rectangularity(b, Om)
        cost_no_split == RatAdd(shape_cost(b, Om, cfg), Rat(cfg.mdl_weights[3] * 1, 1))
        attempt == \/ RatLt(density, Rat(cfg.density_threshold, 100))
                   \/ RatLt(rectangularity, Rat(cfg.rectangularity_threshold, 100))
        split_blocks_ == IF attempt THEN _try_split_by_gaps(b, Om, cfg) ELSE <<b>>
        finite == attempt /\ Len(split_blocks_) > 1
        cost_split == RatAdd(total_shape_cost(split_blocks_, Om, cfg),
                             Rat(cfg.mdl_weights[3] * Len(split_blocks_), 1))
    IN IF finite /\ ~RatLt(cost_no_split, cost_split) THEN split_blocks_ ELSE <<b>>

_mdl_split_decision(b, Om, cfg) ==
    LET density == Rat(region_sum(Om, b), Max(area(b), 1))
        rectangularity == _calculate_rectangularity(b, Om)
        cost_no_split == RatAdd(shape_cost(b, Om, cfg), Rat(cfg.mdl_weights[3] * 1, 1))
        attempt == \/ RatLt(density, Rat(cfg.density_threshold, 100))
                   \/ RatLt(rectangularity, Rat(cfg.rectangularity_threshold, 100))
        split_blocks_ == IF attempt THEN _try_split_by_gaps(b, Om, cfg) ELSE <<b>>
        \* cost_split stays float('inf') unless the gap split gave several slabs
        finite == attempt /\ Len(split_blocks_) > 1
        cost_split == RatAdd(total_shape_cost(split_blocks_, Om, cfg),
                             Rat(cfg.mdl_weights[3] * Len(split_blocks_), 1))
    IN IF finite /\ RatLt(cost_split, cost_no_split) THEN split_blocks_ ELSE <<b>>

RECURSIVE mdl_loop(_, _, _)
mdl_loop(bs, Om, cfg) ==
    IF bs = <<>> THEN <<>>
    ELSE _mdl_split_decision(Head(bs), Om, cfg) \o mdl_loop(Tail(bs), Om, cfg)

\* No flood fill is in progress.
FloodIdle ==
    /\ scan_k = 0
    /\ flood_queue = <<>>
    /\ flood_visited = {}
    /\ flood_box = <<0, 0, 0, 0>>
    /\ component = {}
    /\ components = <<>>
    /\ marks = <<>>

\* No call has made a logger yet.
LoggerIdle ==
    /\ run_dirs = <<>>
    /\ handlers = <<>>
    /\ txt_files = <<>>
    /\ jsonl_files = <<>>
    /\ logged = <<>>

\* block_id k stands for the string "b" followed by the decimal form of k
assign_block_ids(bs) == [i \in 1..Len(bs) |-> [bs[i] EXCEPT !.block_id = i]]

\* size_filter testing the height alone
size_filter_height_only(bs, cfg) ==
    SelectSeq(bs, LAMBDA b : height(b) >= cfg.min_block_height)

size_filter(bs, cfg) ==
    SelectSeq(bs, LAMBDA b : height(b) >= cfg.min_block_height
                             /\ width(b) >= cfg.min_block_width)

split_blocks(Om, Bm, cfg, format) ==
    IF NRows(Om) * NCols(Om) = 0 THEN <<>>
    ELSE LET found == _connected_components(Om, cfg)
             kept == size_filter(found, cfg)
             enhanced == IF format = "xlsx" /\ Bm.present
                         THEN _enhance_with_borders(kept, Om, Bm)
                         ELSE kept
         IN assign_block_ids(mdl_loop(enhanced, Om, cfg))

-----------------------------------------------------------------------------
(* header_parser.py *)

DigitChar(d) ==
    CASE d = 0 -> "0" [] d = 1 -> "1" [] d = 2 -> "2" [] d = 3 -> "3" [] d = 4 -> "4"
      [] d = 5 -> "5" [] d = 6 -> "6" [] d = 7 -> "7" [] d = 8 -> "8" [] d = 9 -> "9"

\* str(n) for an integer n >= 0
RECURSIVE int_str(_)
int_str(n) == IF n < 10 THEN <<DigitChar(n)>> ELSE int_str(n \div 10) \o <<DigitChar(n % 10)>>

\* template.format(n = k): every replacement field "{n}" becomes str(k)
RECURSIVE str_format(_, _)
str_format(template, k) ==
    IF template = <<>> THEN <<>>
    ELSE (IF Head(template) = "{n}" THEN int_str(k) ELSE <<Head(template)>>)
         \o str_format(Tail(template), k)

\* sep.join(parts)
RECURSIVE join(_, _)
join(sep, parts) ==
    IF parts = <<>> THEN <<>>
    ELSE IF Len(parts) = 1 THEN parts[1]
    ELSE parts[1] \o sep \o join(sep, Tail(parts))

\* The score of row r in _detect_header_rows, in hundredths.
header_row_score(df, b, Om, Sm, Tm, cfg, format, r) ==
    LET cols == b.c0..(Min(b.c1, NCols(df)) - 1)
        cell_type(c) == IF r < NRows(Tm) /\ c < NCols(Tm) THEN iloc(Tm, r, c) ELSE 0
        text_count == Cardinality({c \in cols : iloc(Om, r, c) = 1 /\ cell_type(c) = 1})
        numeric_count == Cardinality({c \in cols : iloc(Om, r, c) = 1 /\ cell_type(c) = 2})
        total == text_count + numeric_count
        text_part == IF total > 0 THEN RatScale(40, Rat(text_count, total)) ELSE Rat(0, 1)
        style_cols == b.c0..(Min(b.c1, NCols(Sm)) - 1)
        style_sum[c \in (b.c0 - 1)..(Min(b.c1, NCols(Sm)) - 1)] ==
            IF c < b.c0 THEN Rat(0, 1) ELSE RatAdd(style_sum[c - 1], iloc(Sm, r, c))
        style_mean == LET last == style_sum[Min(b.c1, NCols(Sm)) - 1]
                      IN Rat(last.n, last.d * Cardinality(style_cols))
        style_part == IF format = "xlsx" /\ r < NRows(Sm)
                      THEN RatScale(cfg.header_style_weight, style_mean)
                      ELSE Rat(0, 1)
        numeric_part == IF total > 0
                        THEN RatScale(30, RatOneMinus(Rat(numeric_count, total)))
                        ELSE Rat(0, 1)
    IN RatAdd(RatAdd(text_part, style_part), numeric_part)

\* header_rows[:n]
take(s, n) == SubSeq(s, 1, Min(Len(s), Max(n, 0)))

\* _detect_header_rows scanning to the end of the block
_detect_header_rows_to_block_end(df, b, Om, Sm, Tm, cfg, format) ==
    LET max_rows_to_check == Min(b.r1, NRows(df))
        header_rows == ascending({r \in b.r0..(max_rows_to_check - 1) :
                           RatLt(Rat(40, 1),
                                 header_row_score(df, b, Om, Sm, Tm, cfg, format, r))})
    IN take(header_rows, cfg.max_header_rows)

_detect_header_rows(df, b, Om, Sm, Tm, cfg, format) ==
    LET max_rows_to_check == Min(Min(b.r0 + cfg.max_header_rows, b.r1), NRows(df))
        header_rows == ascending({r \in b.r0..(max_rows_to_check - 1) :
                           RatLt(Rat(40, 1),
                                 header_row_score(df, b, Om, Sm, Tm, cfg, format, r))})
    IN take(header_rows, cfg.max_header_rows)

\* The first merged range of the list that covers (row_idx, c), or <<>>.
covering_merges(merged_cells, row_idx, c) ==
    SelectSeq(merged_cells, LAMBDA m :
        /\ m.min_row <= row_idx /\ row_idx <= m.max_row
        /\ m.min_col <= c /\ c <= m.max_col)

\* header_title reading the cell itself whether or not it is merged
header_title_own_cell(df, merged_cells, row_idx, c) ==
    IF row_idx < NRows(df) /\ c < NCols(df) /\ notna(iloc(df, row_idx, c))
    THEN strip(str(iloc(df, row_idx, c)))
    ELSE <<>>

\* The title of column c met in header row row_idx, or <<>> when the row
\* adds none: the merge anchor's value when the cell lies in a merged range
\* and the anchor is not null, the cell's own value otherwise.
header_title(df, merged_cells, row_idx, c) ==
    LET hit == covering_merges(merged_cells, row_idx, c)
        in_merged == hit # <<>>
        anchor_ok == in_merged /\ hit[1].min_row < NRows(df) /\ hit[1].min_col < NCols(df)
        merged_na == ~anchor_ok \/ ~notna(iloc(df, hit[1].min_row, hit[1].min_col))
    IN IF in_merged /\ ~merged_na
       THEN strip(str(iloc(df, hit[1].min_row, hit[1].min_col)))
       ELSE IF row_idx < NRows(df) /\ c < NCols(df) /\ notna(iloc(df, row_idx, c))
            THEN strip(str(iloc(df, row_idx, c)))
            ELSE <<>>

RECURSIVE column_path(_, _, _, _, _)
column_path(df, merged_cells, rows_left, c, path) ==
    IF rows_left = <<>> THEN path
    ELSE LET value == header_title(df, merged_cells, Head(rows_left), c)
         IN column_path(df, merged_cells, Tail(rows_left), c,
                IF value # <<>> /\ value \notin Range(path) THEN Append(path, value)
                ELSE path)

\* len([x for x in columns[:i] if x == col]): seen[col] when the loop of
\* _handle_duplicate_columns is at position i
seen_count(columns, i, col) == Cardinality({j \in 1..i : columns[j] = col})

\* Duplicate handling that keeps the first occurrence of a name and drops
\* the later ones
drop_repeated_columns(columns, cfg) ==
    LET keep == ascending({i \in 1..Len(columns) : seen_count(columns, i, columns[i]) = 1})
    IN [k \in 1..Len(keep) |-> columns[keep[k]]]

_handle_duplicate_columns(columns, cfg) ==
    [i \in 1..Len(columns) |->
        IF seen_count(columns, Len(columns), columns[i]) > 1
        THEN columns[i] \o str_format(cfg.duplicate_col_suffix,
                                      seen_count(columns, i, columns[i]))
        ELSE columns[i]]

leaf_name(df, merged_cells, header_rows, c, cfg) ==
    LET path == column_path(df, merged_cells, header_rows, c, <<>>)
    IN IF path # <<>>
       THEN (IF cfg.keep_leaf_only THEN path[Len(path)] ELSE join(<<"/">>, path))
       ELSE <<"C", "o", "l", "u", "m", "n">> \o int_str(c)

\* leaf_columns of _expand_to_leaf_columns before duplicates are handled
collected_names(df, b, header_rows, merged_cells, cfg) ==
    LET n == Max(Min(b.c1, NCols(df)) - b.c0, 0)
    IN [k \in 1..n |-> leaf_name(df, merged_cells, header_rows, b.c0 + k - 1, cfg)]

_expand_to_leaf_columns(df, b, header_rows, merged_cells, cfg) ==
    _handle_duplicate_columns(collected_names(df, b, header_rows, merged_cells, cfg), cfg)

\* The names taken from the block's first row when no header row was found.
first_row_names(df, b) ==
    [k \in 1..(b.c1 - b.c0) |->
        IF b.r0 < NRows(df) /\ b.c0 + k - 1 < NCols(df)
        THEN str(iloc(df, b.r0, b.c0 + k - 1))
        ELSE <<"C", "o", "l", "u", "m", "n">> \o int_str(b.c0 + k - 1)]

parse_headers(df, b, Om, Sm, Tm, merged_cells, cfg, format) ==
    LET header_rows == _detect_header_rows(df, b, Om, Sm, Tm, cfg, format)
    IN [header_rows |-> header_rows,
        leaf_columns |-> IF header_rows = <<>> THEN first_row_names(df, b)
                         ELSE _expand_to_leaf_columns(df, b, header_rows, merged_cells, cfg)]

-----------------------------------------------------------------------------
(* cleaner.py *)

RECURSIVE RatSum(_)
RatSum(s) == IF s = <<>> THEN Rat(0, 1) ELSE RatAdd(Head(s), RatSum(Tail(s)))

\* Counter(col_types).most_common(1)[0][1] / len(col_types) for column c
column_type_share(b, Tm, c) ==
    LET col_rows == {r \in b.r0..(b.r1 - 1) : r < NRows(Tm) /\ c < NCols(Tm)}
        count(t) == Cardinality({r \in col_rows : iloc(Tm, r, c) = t})
        most_common_count == CHOOSE n \in {count(t) : t \in 0..3} :
                                 \A t \in 0..3 : count(t) <= n
    IN IF col_rows = {} THEN Rat(0, 1) ELSE Rat(most_common_count, Cardinality(col_rows))

\* TableScore; the fractions are rationals, total is in hundredths
calculate_table_score(b, Om, Tm, Bm, header_rows) ==
    LET density == Rat(region_sum(Om, b), Max(area(b), 1))
        shares == [k \in 1..width(b) |-> column_type_share(b, Tm, b.c0 + k - 1)]
        summed == RatSum(shares)
        type_consistency == Rat(summed.n, summed.d * Max(width(b), 1))
        border_completeness ==
            IF Bm.present
            THEN LET cells == {rc \in (b.r0..(b.r1 - 1)) \X (b.c0..(b.c1 - 1)) :
                                  rc[1] < NRows(Bm.m) /\ rc[2] < NCols(Bm.m)}
                     flags(rc) ==
                         LET borders == iloc(Bm.m, rc[1], rc[2])
                         IN (IF rc[1] = b.r0 THEN borders[1] ELSE 0)
                            + (IF rc[1] = b.r1 - 1 THEN borders[3] ELSE 0)
                            + (IF rc[2] = b.c0 THEN borders[4] ELSE 0)
                            + (IF rc[2] = b.c1 - 1 THEN borders[2] ELSE 0)
                     count[n \in 0..4] == Cardinality({rc \in cells : flags(rc) = n})
                     border_count == count[1] + 2 * count[2] + 3 * count[3] + 4 * count[4]
                 IN Rat(border_count, Max(4 * Cardinality(cells), 1))
            ELSE Rat(50, 100)
        header_count == Cardinality({i \in 1..Len(header_rows) :
                            b.r0 <= header_rows[i] /\ header_rows[i] < b.r1})
        header_completeness == IF header_rows # <<>>
                               THEN Rat(header_count, Max(Len(header_rows), 1))
                               ELSE Rat(0, 1)
    IN [area |-> area(b),
        density |-> density,
        type_consistency |-> type_consistency,
        border_completeness |-> border_completeness,
        header_completeness |-> header_completeness,
        total |-> RatAdd(RatAdd(RatScale(30, density), RatScale(25, type_consistency)),
                         RatAdd(RatScale(20, border_completeness),
                                RatScale(25, header_completeness)))]

\* The loop of identify_main_table over blocks[1:]: best is the position of
\* the best block so far.
RECURSIVE best_block(_, _, _)
best_block(scs, i, best) ==
    IF i > Len(scs) THEN best
    ELSE best_block(scs, i + 1, IF RatLt(scs[best].total, scs[i].total) THEN i ELSE best)

RECURSIVE last_best_block(_, _, _)
last_best_block(scs, i, best) ==
    IF i > Len(scs) THEN best
    ELSE last_best_block(scs, i + 1,
                         IF RatLt(scs[i].total, scs[best].total) THEN best ELSE i)

\* identify_main_table replacing the best block on an equal total too
identify_main_table_last_tie(bs, scs) ==
    IF bs = <<>> THEN 0 ELSE bs[last_best_block(scs, 2, 1)].block_id

\* Returns the block_id (0 for the empty string)
identify_main_table(bs, scs) ==
    IF bs = <<>> THEN 0 ELSE bs[best_block(scs, 2, 1)].block_id

\* A table: the column labels and the rows, in index order after reset_index.
Table(columns, rows) == [columns |-> columns, rows |-> rows]

\* The rows of a sequence whose 0-based positions are not in drop.
drop_rows(rows, drop) ==
    LET keep == ascending({i \in 1..Len(rows) : (i - 1) \notin drop})
    IN [k \in 1..Len(keep) |-> rows[keep[k]]]

\* [str(df.iloc[r, c]).strip() for c in range(min(5, df.shape[1]))]
leading_pattern(rows, r) ==
    [k \in 1..Min(5, NCols(rows)) |-> strip(str(iloc(rows, r, k - 1)))]

\* The row positions _remove_mid_headers drops from the table's rows.
\* header_rows are the indices parse_file passes in.
_remove_mid_headers(rows, header_rows) ==
    IF header_rows = <<>> THEN <<>>
    ELSE LET first_header_row == header_rows[1]
             has_pattern == first_header_row < NRows(rows) /\ Min(5, NCols(rows)) > 0
             header_pattern == leading_pattern(rows, first_header_row)
             last_header == CHOOSE m \in Range(header_rows) :
                                \A x \in Range(header_rows) : x <= m
             similarity(r) ==
                 Cardinality({k \in 1..Len(header_pattern) :
                     /\ header_pattern[k] = leading_pattern(rows, r)[k]
                     /\ header_pattern[k] # <<>>})
         IN IF ~has_pattern THEN <<>>
            ELSE ascending({r \in (last_header + 1)..(NRows(rows) - 1) :
                     10 * similarity(r) >= 7 * Len(header_pattern)})

\* The characters of the default unit patterns
UnitChars == <<"U+5355", "U+4F4D">>

UnitColons == {":", "U+FF1A"}

AllIn(s, chars) == \A i \in 1..Len(s) : s[i] \in chars

\* r"\s*.*$": blanks, then characters other than the line feed, up to the end
\* of the string or to its final line feed
blank_then_line(s) ==
    \E j \in 0..Len(s) :
        /\ AllIn(SubSeq(s, 1, j), Whitespace)
        /\ LET t == SubSeq(s, j + 1, Len(s))
               line == IF t # <<>> /\ t[Len(t)] = "\n" THEN SubSeq(t, 1, Len(t) - 1) ELSE t
           IN "\n" \notin Range(line)

\* regex.match(s) for the patterns of unit_line_patterns:
\*   "colon"  r'^\s*<unit>[:<fullwidth colon>]\s*.*$'
\*   "paren"  r'^\s*\(<unit>.*\)\s*$'
regex_match(pattern, s) ==
    \E i \in 0..Len(s) :
        /\ AllIn(SubSeq(s, 1, i), Whitespace)
        /\ IF pattern = "colon"
           THEN /\ Len(s) >= i + 3
                /\ SubSeq(s, i + 1, i + 2) = UnitChars
                /\ s[i + 3] \in UnitColons
                /\ blank_then_line(SubSeq(s, i + 4, Len(s)))
           ELSE /\ Len(s) >= i + 4
                /\ s[i + 1] = "("
                /\ SubSeq(s, i + 2, i + 3) = UnitChars
                /\ \E k \in (i + 4)..Len(s) :
                       /\ s[k] = ")"
                       /\ "\n" \notin Range(SubSeq(s, i + 4, k - 1))
                       /\ AllIn(SubSeq(s, k + 1, Len(s)), Whitespace)

\* The cells _extract_unit_line looks at, as <<r, c>>, 0-based
unit_window(table) ==
    {<<r, c>> : r \in 0..(Min(10, Len(table.rows)) - 1),
                c \in 0..(Min(5, Len(table.columns)) - 1)}

row_major_before(a, b) == a[1] < b[1] \/ (a[1] = b[1] /\ a[2] <= b[2])

unit_matches(table, pattern) ==
    {rc \in unit_window(table) :
        /\ notna(iloc(table.rows, rc[1], rc[2]))
        /\ regex_match(pattern, str(iloc(table.rows, rc[1], rc[2])))}

\* _extract_unit_line: None, or the stripped text of the first match
_extract_unit_line(table, pattern) ==
    LET found == unit_matches(table, pattern)
    IN IF found = {} THEN NoneVal
       ELSE LET first == CHOOSE a \in found : \A b \in found : row_major_before(a, b)
            IN Str(strip(str(iloc(table.rows, first[1], first[2]))))

\* The loop over cells first: the first cell of the window that matches any
\* of the patterns
extract_units_cell_first(table, unit_patterns) ==
    LET found == UNION {unit_matches(table, unit_patterns[k]) : k \in 1..Len(unit_patterns)}
    IN IF found = {} THEN NoneVal
       ELSE LET first == CHOOSE a \in found : \A b \in found : row_major_before(a, b)
            IN Str(strip(str(iloc(table.rows, first[1], first[2]))))

\* The loop over unit_patterns: the result of the first pattern that finds a
\* unit, None when none does
RECURSIVE extract_units(_, _)
extract_units(table, unit_patterns) ==
    IF unit_patterns = <<>> THEN NoneVal
    ELSE LET unit_str == _extract_unit_line(table, Head(unit_patterns))
         IN IF notna(unit_str) /\ str(unit_str) # <<>> THEN unit_str
            ELSE IF Len(unit_patterns) = 1 THEN unit_str
            ELSE extract_units(table, Tail(unit_patterns))

\* clean_dataframe: the cleaned table, the unit string and the removed row
\* positions
clean_dataframe(table, header_rows, cfg) ==
    LET removed_rows == IF cfg.allow_mid_headers
                        THEN _remove_mid_headers(table.rows, header_rows)
                        ELSE <<>>
        df_cleaned == Table(table.columns, drop_rows(table.rows, Range(removed_rows)))
    IN [df_cleaned |-> df_cleaned,
        unit_str |-> extract_units(df_cleaned, cfg.unit_line_patterns),
        removed_rows |-> removed_rows]

-----------------------------------------------------------------------------
(* exporter.py *)

\* The characters sanitization replaces, as the specification lists them.
INVALID_FILENAME_CHARS == {"\\", "/", ":", "*", "?", "\"", "<", ">", "|"}

TableName == <<"t", "a", "b", "l", "e">>

\* _sanitize_filename testing for the empty name before stripping
_sanitize_filename_empty_first(name, cfg) ==
    IF ~cfg.sanitize_file_name THEN name
    ELSE LET replaced == [i \in 1..Len(name) |->
                             IF name[i] \in INVALID_FILENAME_CHARS THEN "_" ELSE name[i]]
             named == IF replaced = <<>> THEN TableName ELSE replaced
             stripped == strip(named)
             max_len == IF cfg.long_path_support THEN 200 ELSE 120
         IN IF Len(stripped) > max_len THEN SubSeq(stripped, 1, max_len) ELSE stripped

_sanitize_filename(name, cfg) ==
    IF ~cfg.sanitize_file_name THEN name
    ELSE LET replaced == [i \in 1..Len(name) |->
                             IF name[i] \in INVALID_FILENAME_CHARS THEN "_" ELSE name[i]]
             stripped == strip(replaced)
             max_len == IF cfg.long_path_support THEN 200 ELSE 120
             cut == IF Len(stripped) > max_len THEN SubSeq(stripped, 1, max_len)
                    ELSE stripped
         IN IF cut = <<>> THEN TableName ELSE cut

\* "_dup{n}"
dup_suffix(n) == <<"_", "d", "u", "p">> \o int_str(n)

endswith(s, suffix) ==
    Len(s) >= Len(suffix) /\ SubSeq(s, Len(s) - Len(suffix) + 1, Len(s)) = suffix

\* s.rsplit("_dup", 1)[0]: s up to its last "_dup", s itself when it has none
rsplit_dup(s) ==
    LET at == {i \in 1..(Len(s) - 3) : SubSeq(s, i, i + 3) = <<"_", "d", "u", "p">>}
    IN IF at = {} THEN s
       ELSE SubSeq(s, 1, (CHOOSE i \in at : \A j \in at : j <= i) - 1)

\* "_{ts_str}.csv": the timestamp of the run is one token
stamp_csv == <<"_", "{ts}", ".csv">>

\* The loop of export_csv over the names taken in the csv directory
RECURSIVE free_csv_path(_, _, _, _)
free_csv_path(existing, safe_name, filename, counter) ==
    IF filename \notin existing THEN filename
    ELSE LET base_name == IF endswith(safe_name, dup_suffix(counter - 1))
                          THEN rsplit_dup(safe_name)
                          ELSE safe_name
         IN free_csv_path(existing, safe_name,
                          base_name \o dup_suffix(counter) \o stamp_csv, counter + 1)

\* The file name export_csv writes to, given the files of the csv directory
csv_path_for(existing, table_name, cfg) ==
    LET safe_name == _sanitize_filename(table_name, cfg)
    IN free_csv_path(existing, safe_name, safe_name \o stamp_csv, 1)

-----------------------------------------------------------------------------
(* parser.py: parse_file *)

NoB == [present |-> FALSE, m |-> <<>>]

Event(name) == [event |-> name, warning_code |-> "", level |-> "INFO"]

\* A dictionary without keys
EmptyDict == [key \in {} |-> 0]

NoManifest == [written |-> FALSE, outputs |-> <<>>, warnings |-> EmptyDict]

\* A file suffix detect_format maps to the format.
suffix_of(format) ==
    CASE format = "xlsx" -> <<".", "x", "l", "s", "x">>
      [] format = "xlsb" -> <<".", "x", "l", "s", "b">>
      [] format = "csv" -> <<".", "c", "s", "v">>

\* sheet_name = None, and a list of sheet names
NoSheets == [given |-> FALSE, names |-> <<>>]

SheetList(names) == [given |-> TRUE, names |-> names]

\* The k-th sheet name used as input: "s1", "s2", ...
SheetName(k) == <<"s">> \o int_str(k)

\* No sink before DualLogger is constructed; both open after it.
NoSinks == [txt |-> "none", jsonl |-> "none"]

OpenSinks == [txt |-> "open", jsonl |-> "open"]

\* What run_dir.mkdir and DualLogger.__init__ leave on disk.
RunFiles == {"run_dir", "logs", "logs/run.log.txt", "logs/run.log.jsonl"}

\* The keys of the dictionary read_file returns, in insertion order: the
\* pseudo-sheet of a csv file, or the distinct names of the list.
sheet_data_keys(format, sheets) ==
    IF format = "csv" THEN <<<<"_", "_", "c", "s", "v", "_", "_">>>>
    ELSE LET first == ascending({i \in 1..Len(sheets.names) :
                          \A j \in 1..(i - 1) : sheets.names[j] # sheets.names[i]})
         IN [k \in 1..Len(first) |-> sheets.names[first[k]]]

\* str.lower() on the letters of the file suffixes
lower(s) ==
    [i \in 1..Len(s) |->
        CASE s[i] = "X" -> "x" [] s[i] = "L" -> "l" [] s[i] = "S" -> "s"
          [] s[i] = "B" -> "b" [] s[i] = "C" -> "c" [] s[i] = "V" -> "v"
          [] OTHER -> LowerChar(s[i])]

\* detect_format treating every unknown suffix as delimited text
detect_format_csv_fallback(suffix) ==
    LET e == lower(suffix)
    IN IF e = suffix_of("xlsx") THEN "xlsx"
       ELSE IF e = suffix_of("xlsb") THEN "xlsb"
       ELSE "csv"

\* detect_format: the format, or "unsupported" when UnsupportedFormatError
\* is raised
detect_format(suffix) ==
    LET e == lower(suffix)
    IN IF e = suffix_of("xlsx") THEN "xlsx"
       ELSE IF e = suffix_of("xlsb") THEN "xlsb"
       ELSE IF e = suffix_of("csv") THEN "csv"
       ELSE "unsupported"

\* The state when parse_file is called: nothing on disk, no logger.
InitCall(configs, suffixes, sheet_args) ==
    /\ pc = "called"
    /\ config \in configs
    /\ ext \in suffixes
    /\ sheet_name \in sheet_args
    /\ file_format = "unsupported"
    /\ n_sheets = 0
    /\ sheet_i = 0
    /\ df_raw = <<>>
    /\ metadata = [hidden_rows |-> {}, hidden_cols |-> {}, borders |-> <<>>,
                   styles |-> <<>>, merged_cells |-> <<>>]
    /\ O = <<>> /\ B = NoB /\ S = <<>> /\ T = <<>>
    /\ blocks = <<>>
    /\ header_hierarchies = <<>>
    /\ scores = <<>>
    /\ main_block_id = 0
    /\ block_i = 0
    /\ all_dfs = <<>>
    /\ all_metas = <<>>
    /\ log = <<>>
    /\ manifest = NoManifest
    /\ error = ""
    /\ files = {}
    /\ sinks = NoSinks
    /\ csv_files = {}
    /\ df_counter = 1
    /\ all_keys = <<>>
    /\ exports = <<>>
    /\ writers = <<>>
    /\ FloodIdle
    /\ LoggerIdle

\* Argument validation: the format from the suffix, then the sheet list
\* required for a workbook and forbidden for delimited text
Validate ==
    /\ pc = "called"
    /\ LET format == detect_format(ext)
           listed == sheet_name.given /\ Len(sheet_name.names) > 0
       IN /\ file_format' = format
          /\ IF format = "unsupported"
             THEN pc' = "rejected" /\ error' = "UnsupportedFormat" /\ UNCHANGED sheet_name
             ELSE IF format = "csv"
             THEN IF listed
                  THEN pc' = "rejected" /\ error' = "InvalidArgument"
                       /\ UNCHANGED sheet_name
                  ELSE pc' = "validated" /\ sheet_name' = NoSheets /\ UNCHANGED error
             ELSE IF ~listed
                  THEN pc' = "rejected" /\ error' = "InvalidArgument"
                       /\ UNCHANGED sheet_name
                  ELSE pc' = "validated" /\ UNCHANGED <<sheet_name, error>>
    /\ UNCHANGED <<step_vars, config, n_sheets, sheet_i, df_raw, metadata, O, B, S, T,
                   blocks, header_hierarchies, scores, main_block_id, block_i,
                   all_dfs, all_metas, log, manifest, ext, files, sinks, key_vars>>

\* The run directory is created and the logger opens its two sinks.
CreateRun ==
    /\ pc = "validated"
    /\ files' = RunFiles
    /\ sinks' = OpenSinks
    /\ pc' = "start"
    /\ UNCHANGED <<step_vars, config, file_format, n_sheets, sheet_i, df_raw, metadata, O, B, S, T,
                   blocks, header_hierarchies, scores, main_block_id, block_i,
                   all_dfs, all_metas, log, manifest, error, call_vars, key_vars>>

\* The state at the try statement: arguments validated, run directory and
\* logger created.
InitWith(configs, formats, sheet_counts) ==
    /\ pc = "start"
    /\ config \in configs
    /\ file_format \in formats
    /\ ext = suffix_of(file_format)
    /\ \E n \in sheet_counts :
          sheet_name = IF file_format = "csv" THEN NoSheets
                       ELSE SheetList([k \in 1..n |-> SheetName(k)])
    /\ n_sheets = 0
    /\ sheet_i = 0
    /\ df_raw = <<>>
    /\ metadata = [hidden_rows |-> {}, hidden_cols |-> {}, borders |-> <<>>,
                   styles |-> <<>>, merged_cells |-> <<>>]
    /\ O = <<>> /\ B = NoB /\ S = <<>> /\ T = <<>>
    /\ blocks = <<>>
    /\ header_hierarchies = <<>>
    /\ scores = <<>>
    /\ main_block_id = 0
    /\ block_i = 0
    /\ all_dfs = <<>>
    /\ all_metas = <<>>
    /\ log = <<>>
    /\ manifest = NoManifest
    /\ error = ""
    /\ files = RunFiles
    /\ sinks = OpenSinks
    /\ csv_files = {}
    /\ df_counter = 1
    /\ all_keys = <<>>
    /\ exports = <<>>
    /\ writers = <<>>
    /\ FloodIdle
    /\ LoggerIdle

\* run.start, read_file, file.loaded and the empty result dictionaries
ReadFile ==
    /\ pc = "start"
    /\ pc' = "sheets"
    /\ n_sheets' = Len(sheet_data_keys(file_format, sheet_name))
    /\ log' = log \o <<Event("run.start"), Event("file.loaded")>>
    /\ UNCHANGED <<step_vars, config, file_format, sheet_i, df_raw, metadata, O, B, S, T,
                   blocks, header_hierarchies, scores, main_block_id, block_i,
                   all_dfs, all_metas, manifest>>
    /\ UNCHANGED <<call_vars, run_vars, key_vars>>

\* The head of the sheet loop: the next (df_raw, metadata) of sheet_data and
\* the four matrices GridBuilder derives from it.
BuildGrid(sheet) ==
    /\ pc = "sheets"
    /\ sheet_i < n_sheets
    /\ sheet_i' = sheet_i + 1
    /\ df_raw' = sheet.df
    /\ metadata' = sheet.metadata
    /\ O' = build_occupancy_matrix(sheet.df, sheet.metadata)
    /\ B' = IF file_format = "xlsx"
            THEN [present |-> TRUE, m |-> build_border_matrix(sheet.df, sheet.metadata)]
            ELSE NoB
    /\ S' = build_style_matrix(sheet.df, sheet.metadata, file_format)
    /\ T' = build_type_matrix(sheet.df)
    /\ log' = Append(log, Event("grid.build"))
    /\ pc' = "split"
    /\ UNCHANGED <<step_vars, config, file_format, n_sheets, blocks, header_hierarchies, scores,
                   main_block_id, block_i, all_dfs, all_metas, manifest>>
    /\ UNCHANGED <<call_vars, run_vars, key_vars>>

\* split_blocks; a sheet without blocks is skipped
SplitBlocks ==
    /\ pc = "split"
    /\ blocks' = split_blocks(O, B, config, file_format)
    /\ log' = Append(log, Event("split.blocks"))
    /\ pc' = IF blocks' = <<>> THEN "sheets" ELSE "headers"
    /\ UNCHANGED <<step_vars, config, file_format, n_sheets, sheet_i, df_raw, metadata, O, B, S, T,
                   header_hierarchies, scores, main_block_id, block_i,
                   all_dfs, all_metas, manifest>>
    /\ UNCHANGED <<call_vars, run_vars, key_vars>>

\* The first block loop: parse_headers for every block of the sheet
ParseHeaders ==
    /\ pc = "headers"
    /\ header_hierarchies' =
           [i \in 1..Len(blocks) |->
               parse_headers(df_raw, blocks[i], O, S, T, metadata.merged_cells,
                             config, file_format)]
    /\ pc' = "score"
    /\ UNCHANGED <<step_vars, config, file_format, n_sheets, sheet_i, df_raw, metadata, O, B, S, T,
                   blocks, scores, main_block_id, block_i, all_dfs, all_metas, log,
                   manifest>>
    /\ UNCHANGED <<call_vars, run_vars, key_vars>>

\* The second block loop and identify_main_table
ScoreBlocks ==
    /\ pc = "score"
    /\ scores' = [i \in 1..Len(blocks) |->
                     calculate_table_score(blocks[i], O, T, B,
                                           header_hierarchies[i].header_rows)]
    /\ main_block_id' = identify_main_table(blocks, scores')
    /\ block_i' = 0
    /\ pc' = "blocks"
    /\ UNCHANGED <<step_vars, config, file_format, n_sheets, sheet_i, df_raw, metadata, O, B, S, T,
                   blocks, header_hierarchies, all_dfs, all_metas, log, manifest>>
    /\ UNCHANGED <<call_vars, run_vars, key_vars>>

\* df_raw.iloc[block.r0:block.r1, block.c0:block.c1] with its column labels
block_frame(df, b) ==
    Table([k \in 1..width(b) |-> int_str(b.c0 + k - 1)],
          [i \in 1..height(b) |-> [k \in 1..width(b) |-> iloc(df, b.r0 + i - 1, b.c0 + k - 1)]])

\* The column assignment fails when fewer names than columns are given.
columns_fit(b, hh) == hh.leaf_columns = <<>> \/ Len(hh.leaf_columns) >= width(b)

\* Column names set and the header rows of the block dropped
with_header_applied(df, b, hh) ==
    LET df_block == block_frame(df, b)
        header_row_indices == {hh.header_rows[i] - b.r0 : i \in
                                  {j \in 1..Len(hh.header_rows) :
                                      b.r0 <= hh.header_rows[j] /\ hh.header_rows[j] < b.r1}}
    IN IF hh.leaf_columns = <<>> THEN df_block
       ELSE Table(take(hh.leaf_columns, width(b)),
                  drop_rows(df_block.rows, header_row_indices))

TableMeta(sheet, b, is_main, score, header, units) ==
    [sheet |-> sheet, bbox |-> <<b.r0, b.r1, b.c0, b.c1>>, is_main |-> is_main,
     score |-> score, header |-> header, units |-> units, warnings |-> <<>>,
     csv_path |-> <<>>]

\* What is remembered of an export_csv call: the caller, the name given, its
\* sanitized stem, the file written, and whether that file was there before
ExportRecord(by, table_name, csv_path, existing, cfg) ==
    [by |-> by, table_name |-> table_name, name |-> _sanitize_filename(table_name, cfg),
     path |-> csv_path, existed |-> csv_path \in existing]

\* The name export_csv is called with for the current sheet
table_name_of(format, sheets, i) ==
    IF format = "csv" THEN TableName ELSE sheet_data_keys(format, sheets)[i]

\* d[key] = value on a dictionary kept as its keys and its values in
\* insertion order
dict_set_keys(keys, key) == IF key \in Range(keys) THEN keys ELSE Append(keys, key)

dict_set_values(keys, values, key, value) ==
    IF key \in Range(keys)
    THEN [values EXCEPT ![CHOOSE i \in 1..Len(keys) : keys[i] = key] = value]
    ELSE Append(values, value)

\* df_counter += 1, and the counter left as it is
same_df_counter(counter) == counter

next_df_counter(counter) == counter + 1

\* Exporter.__init__ creates the csv and artifacts directories.
ExporterDirs == {"csv", "artifacts"}

ErrorEvent == [Event("error") EXCEPT !.level = "ERROR"]

\* except: the error is logged and raised again; finally: logger.close(),
\* which closes the JSON-lines file
Raise(kind, events) ==
    /\ pc' = "raised"
    /\ error' = kind
    /\ log' = log \o events \o <<ErrorEvent>>
    /\ sinks' = [sinks EXCEPT !.jsonl = "closed"]

\* What the third block loop computes for the current block before export
current_cleaned ==
    clean_dataframe(with_header_applied(df_raw, blocks[block_i + 1],
                                        header_hierarchies[block_i + 1]),
                    header_hierarchies[block_i + 1].header_rows, config)

removal_events(cleaned) ==
    IF cleaned.removed_rows # <<>>
    THEN <<[Event("clean.mid_headers_removed") EXCEPT !.warning_code = "MidHeadersRemoved"]>>
    ELSE <<>>

\* One iteration of the third block loop: the block's table is cut out,
\* named, cleaned, described, exported and stored.
ProcessBlock ==
    /\ pc = "blocks"
    /\ block_i < Len(blocks)
    /\ LET block == blocks[block_i + 1]
           header_hierarchy == header_hierarchies[block_i + 1]
       IN IF ~columns_fit(block, header_hierarchy)
          THEN /\ Raise("ValueError", <<Event("header.detect")>>)
               /\ UNCHANGED <<block_i, all_dfs, all_metas, files, key_vars>>
          ELSE LET cleaned == current_cleaned
                   table_name == table_name_of(file_format, sheet_name, sheet_i)
                   csv_path == csv_path_for(csv_files, table_name, config)
                   meta == [TableMeta(sheet_i, block, block.block_id = main_block_id,
                                      scores[block_i + 1], header_hierarchy,
                                      cleaned.unit_str)
                               EXCEPT !.csv_path = csv_path]
               IN /\ log' = log \o <<Event("header.detect")>> \o removal_events(cleaned)
                                \o <<Event("export.csv")>>
                  /\ files' = files \cup ExporterDirs
                  /\ csv_files' = csv_files \cup {csv_path}
                  /\ exports' = Append(exports,
                         ExportRecord(0, table_name, csv_path, csv_files, config))
                  /\ all_dfs' = dict_set_values(all_keys, all_dfs, df_counter,
                                                cleaned.df_cleaned)
                  /\ all_metas' = dict_set_values(all_keys, all_metas, df_counter, meta)
                  /\ all_keys' = dict_set_keys(all_keys, df_counter)
                  /\ df_counter' = next_df_counter(df_counter)
                  /\ block_i' = block_i + 1
                  /\ pc' = IF block_i + 1 = Len(blocks) THEN "sheets" ELSE "blocks"
                  /\ UNCHANGED <<error, sinks, writers>>
    /\ UNCHANGED <<step_vars, config, file_format, n_sheets, sheet_i, df_raw, metadata, O, B, S, T,
                   blocks, header_hierarchies, scores, main_block_id, manifest,
                   call_vars>>

\* What export_metadata leaves on disk: nothing when there is no table
MetadataFiles(metas) ==
    IF metas = <<>> THEN {} ELSE ExporterDirs \cup {"artifacts/tables_meta.json"}

\* After the last sheet: metadata export, the Manifest and run.end; the
\* finally clause closes the logger.
Finish ==
    /\ pc = "sheets"
    /\ sheet_i = n_sheets
    /\ manifest' = [written |-> TRUE,
                    outputs |-> [k \in 1..Len(all_dfs) |->
                                    [key |-> all_keys[k], rows |-> Len(all_dfs[k].rows),
                                     cols |-> Len(all_dfs[k].columns)]],
                    warnings |-> EmptyDict]
    /\ files' = files \cup MetadataFiles(all_metas) \cup ExporterDirs \cup {"manifest.yml"}
    /\ log' = Append(log, Event("run.end"))
    /\ sinks' = [sinks EXCEPT !.jsonl = "closed"]
    /\ pc' = "done"
    /\ UNCHANGED <<step_vars, config, file_format, n_sheets, sheet_i, df_raw, metadata, O, B, S, T,
                   blocks, header_hierarchies, scores, main_block_id, block_i,
                   all_dfs, all_metas, error, call_vars, key_vars>>

\* read_file raises FileReadError.
ReadFileFails ==
    /\ pc = "start"
    /\ Raise("FileRead", <<Event("run.start")>>)
    /\ UNCHANGED <<step_vars, config, file_format, n_sheets, sheet_i, df_raw, metadata, O, B, S, T,
                   blocks, header_hierarchies, scores, main_block_id, block_i,
                   all_dfs, all_metas, manifest, files, call_vars, key_vars>>

\* export_csv raises OutputWriteError for the current block.
ExportCsvFails ==
    /\ pc = "blocks"
    /\ block_i < Len(blocks)
    /\ columns_fit(blocks[block_i + 1], header_hierarchies[block_i + 1])
    /\ Raise("OutputWrite",
             <<Event("header.detect")>> \o removal_events(current_cleaned))
    /\ files' = files \cup ExporterDirs
    /\ UNCHANGED <<step_vars, config, file_format, n_sheets, sheet_i, df_raw, metadata, O, B, S, T,
                   blocks, header_hierarchies, scores, main_block_id, block_i,
                   all_dfs, all_metas, manifest, call_vars, key_vars>>

\* export_metadata raises OutputWriteError.
ExportMetadataFails ==
    /\ pc = "sheets"
    /\ sheet_i = n_sheets
    /\ all_metas # <<>>
    /\ Raise("OutputWrite", <<>>)
    /\ files' = files \cup ExporterDirs
    /\ UNCHANGED <<step_vars, config, file_format, n_sheets, sheet_i, df_raw, metadata, O, B, S, T,
                   blocks, header_hierarchies, scores, main_block_id, block_i,
                   all_dfs, all_metas, manifest, call_vars, key_vars>>

\* export_manifest raises OutputWriteError.
ExportManifestFails ==
    /\ pc = "sheets"
    /\ sheet_i = n_sheets
    /\ Raise("OutputWrite", <<>>)
    /\ files' = files \cup MetadataFiles(all_metas) \cup ExporterDirs
    /\ UNCHANGED <<step_vars, config, file_format, n_sheets, sheet_i, df_raw, metadata, O, B, S, T,
                   blocks, header_hierarchies, scores, main_block_id, block_i,
                   all_dfs, all_metas, manifest, call_vars, key_vars>>

-----------------------------------------------------------------------------
(* exporter.py: calls of export_csv on one run directory *)

\* An Exporter on a run directory that holds no csv file yet; the callers
\* are the workers of `callers`.
InitExporter(configs, callers) ==
    /\ pc = "exporting"
    /\ config \in configs
    /\ file_format = "xlsx"
    /\ ext = suffix_of("xlsx")
    /\ sheet_name = SheetList(<<SheetName(1)>>)
    /\ n_sheets = 0
    /\ sheet_i = 0
    /\ df_raw = <<>>
    /\ metadata = [hidden_rows |-> {}, hidden_cols |-> {}, borders |-> <<>>,
                   styles |-> <<>>, merged_cells |-> <<>>]
    /\ O = <<>> /\ B = NoB /\ S = <<>> /\ T = <<>>
    /\ blocks = <<>>
    /\ header_hierarchies = <<>>
    /\ scores = <<>>
    /\ main_block_id = 0
    /\ block_i = 0
    /\ all_dfs = <<>>
    /\ all_metas = <<>>
    /\ log = <<>>
    /\ manifest = NoManifest
    /\ error = ""
    /\ files = RunFiles \cup ExporterDirs
    /\ sinks = OpenSinks
    /\ csv_files = {}
    /\ df_counter = 1
    /\ all_keys = <<>>
    /\ exports = <<>>
    /\ writers = [w \in callers |-> [at |-> "idle", table_name |-> <<>>, csv_path |-> <<>>]]
    /\ FloodIdle
    /\ LoggerIdle

exporter_unchanged ==
    UNCHANGED <<step_vars, pc, config, file_format, n_sheets, sheet_i, df_raw, metadata, O, B, S, T,
                blocks, header_hierarchies, scores, main_block_id, block_i,
                all_dfs, all_metas, log, manifest, call_vars, run_vars,
                df_counter, all_keys>>

\* export_csv from the sanitized name to to_csv, without another call in
\* between
ExportCsv(table_name, limit) ==
    /\ pc = "exporting"
    /\ Len(exports) < limit
    /\ LET csv_path == csv_path_for(csv_files, table_name, config)
       IN /\ csv_files' = csv_files \cup {csv_path}
          /\ exports' = Append(exports,
                 ExportRecord(0, table_name, csv_path, csv_files, config))
    /\ UNCHANGED writers
    /\ exporter_unchanged

\* export_csv up to the end of its while loop: the path is chosen from the
\* files that exist now
ExportChoosePath(w, table_name, limit) ==
    /\ pc = "exporting"
    /\ writers[w].at = "idle"
    /\ Len(exports) + Cardinality({v \in DOMAIN writers : writers[v].at = "chosen"}) < limit
    /\ writers' = [writers EXCEPT ![w] =
                      [at |-> "chosen", table_name |-> table_name,
                       csv_path |-> csv_path_for(csv_files, table_name, config)]]
    /\ UNCHANGED <<csv_files, exports>>
    /\ exporter_unchanged

\* df.to_csv(csv_path): the file is opened for writing, truncating it if it
\* exists
ExportWrite(w) ==
    /\ pc = "exporting"
    /\ writers[w].at = "chosen"
    /\ csv_files' = csv_files \cup {writers[w].csv_path}
    /\ exports' = Append(exports,
           ExportRecord(w, writers[w].table_name, writers[w].csv_path, csv_files, config))
    /\ writers' = [writers EXCEPT ![w] =
                      [at |-> "idle", table_name |-> <<>>, csv_path |-> <<>>]]
    /\ exporter_unchanged

-----------------------------------------------------------------------------
(* block_splitter.py: _connected_components, one loop iteration at a time *)

Cells(Om) == (0..(NRows(Om) - 1)) \X (0..(NCols(Om) - 1))

\* A call of _connected_components(O): visited = np.zeros_like(O), blocks = []
InitFlood(configs, grids) ==
    /\ pc = "scan"
    /\ config \in configs
    /\ file_format = "csv"
    /\ ext = suffix_of("csv")
    /\ sheet_name = NoSheets
    /\ n_sheets = 0
    /\ sheet_i = 0
    /\ df_raw = <<>>
    /\ metadata = [hidden_rows |-> {}, hidden_cols |-> {}, borders |-> <<>>,
                   styles |-> <<>>, merged_cells |-> <<>>]
    /\ O \in grids /\ B = NoB /\ S = <<>> /\ T = <<>>
    /\ blocks = <<>>
    /\ header_hierarchies = <<>>
    /\ scores = <<>>
    /\ main_block_id = 0
    /\ block_i = 0
    /\ all_dfs = <<>>
    /\ all_metas = <<>>
    /\ log = <<>>
    /\ manifest = NoManifest
    /\ error = ""
    /\ files = {}
    /\ sinks = NoSinks
    /\ csv_files = {}
    /\ df_counter = 1
    /\ all_keys = <<>>
    /\ exports = <<>>
    /\ writers = <<>>
    /\ scan_k = 0
    /\ flood_queue = <<>>
    /\ flood_visited = {}
    /\ flood_box = <<0, 0, 0, 0>>
    /\ component = {}
    /\ components = <<>>
    /\ marks = [rc \in Cells(O) |-> 0]
    /\ LoggerIdle

flood_unchanged ==
    UNCHANGED <<config, file_format, n_sheets, sheet_i, df_raw, metadata, O, B, S, T,
                blocks, header_hierarchies, scores, main_block_id, block_i,
                all_dfs, all_metas, log, manifest, call_vars, run_vars, key_vars,
                logger_vars>>

\* The cell the two scan loops stand at, row by row.
scan_cell == <<scan_k \div NCols(O), scan_k % NCols(O)>>

\* The scan passes a cell that is empty or already visited.
ScanSkip ==
    /\ pc = "scan"
    /\ scan_k < NRows(O) * NCols(O)
    /\ ~(iloc(O, scan_cell[1], scan_cell[2]) = 1 /\ scan_cell \notin flood_visited)
    /\ scan_k' = scan_k + 1
    /\ UNCHANGED <<pc, flood_queue, flood_visited, flood_box, component, components, marks>>
    /\ flood_unchanged

\* The scan meets an occupied unvisited cell: the head of _bfs_connected
ScanSeed ==
    /\ pc = "scan"
    /\ scan_k < NRows(O) * NCols(O)
    /\ iloc(O, scan_cell[1], scan_cell[2]) = 1 /\ scan_cell \notin flood_visited
    /\ flood_queue' = <<scan_cell>>
    /\ flood_visited' = flood_visited \cup {scan_cell}
    /\ marks' = [marks EXCEPT ![scan_cell] = @ + 1]
    /\ flood_box' = <<scan_cell[1], scan_cell[1], scan_cell[2], scan_cell[2]>>
    /\ component' = {scan_cell}
    /\ pc' = "bfs"
    /\ UNCHANGED <<scan_k, components>>
    /\ flood_unchanged

\* One iteration of the while loop: popleft and the two neighbour loops
BfsPop ==
    /\ pc = "bfs"
    /\ flood_queue # <<>>
    /\ LET r == Head(flood_queue)[1]
           c == Head(flood_queue)[2]
           hits == SelectSeq(neighbour_offsets(config), LAMBDA d :
                      /\ InShape(O, r + d[1], c + d[2])
                      /\ <<r + d[1], c + d[2]>> \notin flood_visited
                      /\ iloc(O, r + d[1], c + d[2]) = 1)
           new == [k \in 1..Len(hits) |-> <<r + hits[k][1], c + hits[k][2]>>]
       IN /\ flood_box' = <<Min(flood_box[1], r), Max(flood_box[2], r), Min(flood_box[3], c), Max(flood_box[4], c)>>
          /\ flood_queue' = Tail(flood_queue) \o new
          /\ flood_visited' = flood_visited \cup Range(new)
          /\ component' = component \cup Range(new)
          /\ marks' = [rc \in DOMAIN marks |->
                          marks[rc] + Cardinality({k \in 1..Len(new) : new[k] = rc})]
    /\ UNCHANGED <<pc, scan_k, components>>
    /\ flood_unchanged

\* The flood_queue is empty: the Block of the widened bounding flood_box is appended
BfsReturn ==
    /\ pc = "bfs"
    /\ flood_queue = <<>>
    /\ LET r0 == Max(0, flood_box[1] - config.hole_tolerance_rows)
           r1 == Min(NRows(O), flood_box[2] + config.hole_tolerance_rows + 1)
           c0 == Max(0, flood_box[3] - config.hole_tolerance_cols)
           c1 == Min(NCols(O), flood_box[4] + config.hole_tolerance_cols + 1)
       IN components' = Append(components,
                               [cells |-> component, block |-> Block(r0, r1, c0, c1)])
    /\ scan_k' = scan_k + 1
    /\ pc' = "scan"
    /\ UNCHANGED <<flood_queue, flood_visited, flood_box, component, marks>>
    /\ flood_unchanged

\* Both scan loops are over: return blocks
ScanEnd ==
    /\ pc = "scan"
    /\ scan_k = NRows(O) * NCols(O)
    /\ pc' = "scanned"
    /\ UNCHANGED flood_vars
    /\ flood_unchanged

-----------------------------------------------------------------------------
(* Inputs *)

DefaultConfig ==
    [min_block_height |-> 2, min_block_width |-> 2,
     hole_tolerance_rows |-> 0, hole_tolerance_cols |-> 0,
     density_threshold |-> 80, rectangularity_threshold |-> 80,
     mdl_weights |-> <<40, 30, 30>>,
     max_header_rows |-> 2, header_style_weight |-> 30,
     keep_leaf_only |-> TRUE, duplicate_col_suffix |-> <<"_", "{n}">>,
     include_hidden |-> FALSE, allow_mid_headers |-> TRUE,
     sanitize_file_name |-> TRUE, long_path_support |-> TRUE,
     unit_line_patterns |-> <<"colon", "paren">>]

NoMetadata ==
    [hidden_rows |-> {}, hidden_cols |-> {}, borders |-> <<>>, styles |-> <<>>,
     merged_cells |-> <<>>]

Sheet(df, md) == [df |-> df, metadata |-> md]

\* All DataFrames of the given shape over the given cell values.
Frames(n_rows, n_cols, values) == [1..n_rows -> [1..n_cols -> values]]

(* Block splitting: occupancy patterns of one sheet *)

SplitRows == 4

SplitCols == 3

SplitConfigs ==
    {[DefaultConfig EXCEPT !.min_block_height = mh, !.min_block_width = mw,
                           !.hole_tolerance_rows = ht[1], !.hole_tolerance_cols = ht[2]] :
        mh \in 1..2, mw \in 1..2, ht \in {<<0, 0>>, <<1, 0>>}}

SplitSheets ==
    {Sheet(df, md) :
        df \in Frames(SplitRows, SplitCols, {NoneVal, Str(<<"a">>)}) \cup {<<>>},
        md \in {NoMetadata}}

InitSplit == InitWith(SplitConfigs, {"xlsx", "csv"}, {1})

NextSplit ==
    \/ ReadFile
    \/ \E sheet \in SplitSheets : BuildGrid(sheet)
    \/ SplitBlocks

SpecSplit == InitSplit /\ [][NextSplit]_vars

(* Occupancy: cell values with blanks, hidden rows and columns *)

GridRows == 2

GridCols == 2

GridValues ==
    {NoneVal, Str(<<>>), Str(<<" ">>), Str(<<"a">>), Str(<<" ", "a", "\t">>)}

\* Hidden indices inside the sheet and one beyond its last row or column.
GridSheets ==
    {Sheet(df, [NoMetadata EXCEPT !.hidden_rows = hr, !.hidden_cols = hc]) :
        df \in Frames(GridRows, GridCols, GridValues),
        hr \in SUBSET {0, GridRows}, hc \in SUBSET {GridCols - 1, GridCols}}

InitGrid == InitWith({DefaultConfig}, {"xlsx"}, {1})

NextGrid ==
    \/ ReadFile
    \/ \E sheet \in GridSheets : BuildGrid(sheet)

SpecGrid == InitGrid /\ [][NextGrid]_vars

(* The whole run on one sheet: headers, cleaning, metadata *)

ParseRows == 2

ParseCols == 3

ParseConfigs ==
    {[DefaultConfig EXCEPT !.min_block_height = 1, !.min_block_width = 1,
                           !.max_header_rows = mk[1], !.keep_leaf_only = mk[2]] :
        mk \in {<<1, TRUE>>, <<2, TRUE>>, <<2, FALSE>>}}

\* Cell values of the wide sheets: a name, the name its first duplicate is
\* given, and a number.
WideValues == {Str(<<"A">>), Str(<<"A", "_", "1">>), Str(<<"1">>)}

TallValues == {NoneVal, Str(<<"A">>), Str(<<"1">>)}

\* The two leftmost cells of the first row merged.
MergedMetadata ==
    [NoMetadata EXCEPT !.merged_cells =
        <<[min_row |-> 0, max_row |-> 0, min_col |-> 0, max_col |-> 1]>>]

\* Wide sheets of ParseRows x ParseCols cells, with and without a merged
\* range, and tall sheets of ParseCols x ParseRows cells with empty cells.
ParseSheets ==
    {Sheet(df, md) : df \in Frames(ParseRows, ParseCols, WideValues),
                     md \in {NoMetadata, MergedMetadata}}
    \cup {Sheet(df, NoMetadata) : df \in Frames(ParseCols, ParseRows, TallValues)}

InitParse == InitWith(ParseConfigs, {"xlsx"}, {1})

NextParse ==
    \/ ReadFile
    \/ \E sheet \in ParseSheets : BuildGrid(sheet)
    \/ SplitBlocks
    \/ ParseHeaders
    \/ ScoreBlocks
    \/ ProcessBlock
    \/ Finish

SpecParse == InitParse /\ [][NextParse]_vars

(* Several sheets of one row *)

MaxSheets == 2

SheetCols == 3

SheetConfigs ==
    {[DefaultConfig EXCEPT !.min_block_height = 1, !.min_block_width = 1,
                           !.max_header_rows = 1]}

SheetSheets ==
    {Sheet(df, NoMetadata) : df \in Frames(1, SheetCols, TallValues)}

InitSheets == InitWith(SheetConfigs, {"xlsx", "xlsb"}, 1..MaxSheets)

NextSheets ==
    \/ ReadFile
    \/ \E sheet \in SheetSheets : BuildGrid(sheet)
    \/ SplitBlocks
    \/ ParseHeaders
    \/ ScoreBlocks
    \/ ProcessBlock
    \/ Finish

SpecSheets == InitSheets /\ [][NextSheets]_vars

-----------------------------------------------------------------------------
(* Whole calls of parse_file, failing ones included *)

RunSuffixes ==
    {suffix_of("xlsx"), suffix_of("xlsb"), suffix_of("csv"),
     <<".", "X", "L", "S", "X">>, <<".", "t", "x", "t">>, <<>>}

RunSheetArgs ==
    {NoSheets, SheetList(<<>>), SheetList(<<SheetName(1)>>),
     SheetList(<<SheetName(1), SheetName(2)>>),
     SheetList(<<SheetName(1), SheetName(1)>>)}

InitRun == InitCall(SheetConfigs, RunSuffixes, RunSheetArgs)

NextRun ==
    \/ Validate
    \/ CreateRun
    \/ ReadFile
    \/ ReadFileFails
    \/ \E sheet \in SheetSheets : BuildGrid(sheet)
    \/ SplitBlocks
    \/ ParseHeaders
    \/ ScoreBlocks
    \/ ProcessBlock
    \/ ExportCsvFails
    \/ ExportMetadataFails
    \/ ExportManifestFails
    \/ Finish

SpecRun == InitRun /\ [][NextRun]_vars

-----------------------------------------------------------------------------
(* Two tables side by side: columns 0-2 and 4-6 around an empty column 3 *)

SideRows == 2

SideFills == {"text", "header", "mixed"}

\* The cell of a table filled in the given way, at 1-based row r, column c
side_cell(fill, r, c) ==
    IF fill = "text" \/ (fill = "header" /\ r = 1) \/ (fill = "mixed" /\ (r + c) % 2 = 0)
    THEN Str(<<"A">>)
    ELSE Str(<<"1">>)

SideFrame(left, right) ==
    [r \in 1..SideRows |->
        [c \in 1..7 |-> IF c < 4 THEN side_cell(left, r, c)
                        ELSE IF c = 4 THEN NoneVal
                        ELSE side_cell(right, r, c)]]

SideSheets ==
    {Sheet(SideFrame(left, right), NoMetadata) : left \in SideFills, right \in SideFills}

SideConfigs ==
    {[DefaultConfig EXCEPT !.min_block_height = mh, !.min_block_width = mw,
                           !.hole_tolerance_rows = ht[1], !.hole_tolerance_cols = ht[2]] :
        mh \in 1..2, mw \in 2..3, ht \in (0..1) \X (0..1)}

InitSide == InitWith(SideConfigs, {"xlsx", "csv"}, {1})

NextSide ==
    \/ ReadFile
    \/ \E sheet \in SideSheets : BuildGrid(sheet)
    \/ SplitBlocks
    \/ ParseHeaders
    \/ ScoreBlocks
    \/ ProcessBlock
    \/ Finish

SpecSide == InitSide /\ [][NextSide]_vars

-----------------------------------------------------------------------------
(* Hidden columns *)

HiddenRows == 2

HiddenCols == 3

HiddenSheets ==
    {Sheet(df, [NoMetadata EXCEPT !.hidden_cols = hidden]) :
        df \in Frames(HiddenRows, HiddenCols, {Str(<<"A">>), Str(<<"1">>)}),
        hidden \in {{}} \cup {{c} : c \in 0..(HiddenCols - 1)}}

HiddenConfigs ==
    {[DefaultConfig EXCEPT !.min_block_height = 1, !.min_block_width = 1,
                           !.hole_tolerance_cols = tolerance] : tolerance \in 0..1}

InitHidden == InitWith(HiddenConfigs, {"xlsx", "csv"}, {1})

NextHidden ==
    \/ ReadFile
    \/ \E sheet \in HiddenSheets : BuildGrid(sheet)
    \/ SplitBlocks
    \/ ParseHeaders
    \/ ScoreBlocks

SpecHidden == InitHidden /\ [][NextHidden]_vars

-----------------------------------------------------------------------------
(* Two-level headers: merged titles over columns 0-1 and 2-3 above a row of
   leaf titles *)

Revenue == <<"R", "e", "v", "e", "n", "u", "e">>

Cost == <<"C", "o", "s", "t">>

Year2023 == <<"2", "0", "2", "3">>

Year2024 == <<"2", "0", "2", "4">>

\* The cells of a merged range other than its anchor are read as None.
TwoLevelFrame(left, right, leaves) == <<<<left, NoneVal, right, NoneVal>>, leaves>>

TwoLevelMerges ==
    <<[min_row |-> 0, max_row |-> 0, min_col |-> 0, max_col |-> 1],
      [min_row |-> 0, max_row |-> 0, min_col |-> 2, max_col |-> 3]>>

\* Every cell bold and filled
AllStyled == [key \in (0..1) \X (0..3) |-> [bold |-> TRUE, bg_color |-> TRUE]]

TwoLevelSheets ==
    {Sheet(TwoLevelFrame(left, right, leaves),
           [NoMetadata EXCEPT !.merged_cells = TwoLevelMerges, !.styles = styles]) :
        left \in {Str(Revenue), Str(<<" ">> \o Revenue), NoneVal},
        right \in {Str(Cost), Str(Revenue), Str(<<" ">>)},
        leaves \in [1..4 -> {Str(Year2023), Str(Year2024), Str(Revenue), NoneVal}],
        styles \in {<<>>, AllStyled}}

TwoLevelConfigs ==
    {[DefaultConfig EXCEPT !.min_block_height = 1, !.min_block_width = 1,
                           !.header_style_weight = 100, !.keep_leaf_only = keep] :
        keep \in BOOLEAN}

InitTwoLevel == InitWith(TwoLevelConfigs, {"xlsx"}, {1})

NextTwoLevel ==
    \/ ReadFile
    \/ \E sheet \in TwoLevelSheets : BuildGrid(sheet)
    \/ SplitBlocks
    \/ ParseHeaders

SpecTwoLevel == InitTwoLevel /\ [][NextTwoLevel]_vars

-----------------------------------------------------------------------------
(* Unit lines: a header row over data rows that hold unit annotations *)

\* The unit annotation with the full-width colon, followed by two
\* characters of text
UnitColon == UnitChars \o <<"U+FF1A", "U+4E07", "U+5143">>

\* "(<unit>)"
UnitParen == <<"(">> \o UnitChars \o <<")">>

UnitValues ==
    {Str(<<"1">>), Str(UnitColon), Str(UnitParen),
     Str(<<" ">> \o UnitChars \o <<":", " ">>), Str(<<"x">> \o UnitColon)}

HeaderOver(data_rows, n_cols) == <<[c \in 1..n_cols |-> Str(<<"A">>)]>> \o data_rows

\* Data rows of "1" with one unit annotation at 1-based (row, col)
OnesWithUnit(n_rows, n_cols, row, col) ==
    [r \in 1..n_rows |-> [c \in 1..n_cols |->
        IF r = row /\ c = col THEN Str(UnitColon) ELSE Str(<<"1">>)]]

UnitSheets ==
    {Sheet(HeaderOver(data, 2), NoMetadata) : data \in Frames(2, 2, UnitValues)}
    \cup {Sheet(HeaderOver(OnesWithUnit(1, 6, 1, col), 6), NoMetadata) : col \in 5..6}
    \cup {Sheet(HeaderOver(OnesWithUnit(11, 1, row, 1), 1), NoMetadata) : row \in 10..11}

UnitConfigs ==
    {[DefaultConfig EXCEPT !.min_block_height = 1, !.min_block_width = 1,
                           !.max_header_rows = 1, !.allow_mid_headers = mid,
                           !.unit_line_patterns = patterns] :
        mid \in BOOLEAN,
        patterns \in {<<"colon", "paren">>, <<"paren", "colon">>, <<"paren">>}}

InitUnits == InitWith(UnitConfigs, {"xlsx"}, {1})

NextUnits ==
    \/ ReadFile
    \/ \E sheet \in UnitSheets : BuildGrid(sheet)
    \/ SplitBlocks
    \/ ParseHeaders
    \/ ScoreBlocks
    \/ ProcessBlock
    \/ Finish

SpecUnits == InitUnits /\ [][NextUnits]_vars

-----------------------------------------------------------------------------
(* Sequences of export_csv calls *)

MaxExports == 3

ExportConfigs ==
    {[DefaultConfig EXCEPT !.sanitize_file_name = sanitize, !.long_path_support = long] :
        sanitize \in BOOLEAN, long \in BOOLEAN}

\* "x_dup0"
NameDup0 == <<"x">> \o dup_suffix(0)

ExportNames ==
    {<<>>, <<" ", "\t">>, <<" ", "a", "/", "b", " ">>, <<":", "*", "?">>,
     <<"\\", "\"", "<", ">", "|">>, <<"x">>, NameDup0,
     [i \in 1..121 |-> "a"], [i \in 1..201 |-> IF i = 120 THEN " " ELSE "a"]}

InitExport == InitExporter(ExportConfigs, {})

NextExport == \E table_name \in ExportNames : ExportCsv(table_name, MaxExports)

SpecExport == InitExport /\ [][NextExport]_vars

-----------------------------------------------------------------------------
(* Two callers of export_csv on one run directory *)

NumWorkers == 2

MaxRaceExports == 3

RaceNames == {<<"x">>, <<"y">>}

InitRace == InitExporter({DefaultConfig}, 1..NumWorkers)

NextRace ==
    \/ \E w \in 1..NumWorkers, table_name \in RaceNames :
           ExportChoosePath(w, table_name, MaxRaceExports)
    \/ \E w \in 1..NumWorkers : ExportWrite(w)

SpecRace == InitRace /\ [][NextRace]_vars

\* Gap splits: sheets whose rows and columns are switched on or off as a
\* whole, with one cell cleared in some of them
GapRows == 4

GapCols == 4

GapHoles == {<<GapRows, GapCols>>, <<0, 0>>, <<2, 2>>}

GapFrame(on_rows, on_cols, hole) ==
    [r \in 1..GapRows |-> [c \in 1..GapCols |->
        IF (r - 1) \in on_rows /\ (c - 1) \in on_cols /\ <<r - 1, c - 1>> # hole
        THEN Str(<<"a">>) ELSE NoneVal]]

GapSheets ==
    {Sheet(GapFrame(on_rows, on_cols, hole), NoMetadata) :
        on_rows \in SUBSET (0..(GapRows - 1)), on_cols \in SUBSET (0..(GapCols - 1)),
        hole \in GapHoles}

\* Weights under which splitting the pattern X _ X _ is cheaper than, as
\* dear as, and dearer than keeping it
GapWeights == {<<40, 30, 30>>, <<40, 20, 30>>, <<20, 10, 30>>}

GapConfigs ==
    {[DefaultConfig EXCEPT !.min_block_height = m, !.min_block_width = m,
                           !.hole_tolerance_rows = ht, !.hole_tolerance_cols = ht,
                           !.mdl_weights = w] :
        m \in 1..2, ht \in 0..1, w \in GapWeights}

InitGaps == InitWith(GapConfigs, {"xlsx"}, {1})

NextGaps ==
    \/ ReadFile
    \/ \E sheet \in GapSheets : BuildGrid(sheet)
    \/ SplitBlocks

SpecGaps == InitGaps /\ [][NextGaps]_vars

\* Borders: a filled sheet with any of its four outer walls drawn, and with
\* or without all borders on the cells off the first row and column
BorderRows == 3

BorderCols == 3

Walls == {"top", "right", "bottom", "left"}

BorderInfo(r, c, walls, inner) ==
    [top    |-> (r = 0 /\ "top" \in walls) \/ (inner /\ r > 0 /\ c > 0),
     right  |-> (c = BorderCols - 1 /\ "right" \in walls) \/ (inner /\ r > 0 /\ c > 0),
     bottom |-> (r = BorderRows - 1 /\ "bottom" \in walls) \/ (inner /\ r > 0 /\ c > 0),
     left   |-> (c = 0 /\ "left" \in walls) \/ (inner /\ r > 0 /\ c > 0)]

\* metadata["borders"] holds the cells with a border style on some side.
BorderMetadata(walls, inner) ==
    LET info(rc) == BorderInfo(rc[1], rc[2], walls, inner)
        keys == {rc \in (0..(BorderRows - 1)) \X (0..(BorderCols - 1)) :
                    info(rc).top \/ info(rc).right \/ info(rc).bottom \/ info(rc).left}
    IN [NoMetadata EXCEPT !.borders = [rc \in keys |-> info(rc)]]

BorderSheets ==
    {Sheet([r \in 1..BorderRows |-> [c \in 1..BorderCols |-> v]],
           BorderMetadata(walls, inner)) :
        v \in {Str(<<"A">>), Str(<<"1">>)}, walls \in SUBSET Walls, inner \in BOOLEAN}

BorderConfigs == {[DefaultConfig EXCEPT !.min_block_height = m] : m \in 1..2}

InitBorders == InitWith(BorderConfigs, {"xlsx"}, {1})

NextBorders ==
    \/ ReadFile
    \/ \E sheet \in BorderSheets : BuildGrid(sheet)
    \/ SplitBlocks
    \/ ParseHeaders
    \/ ScoreBlocks

SpecBorders == InitBorders /\ [][NextBorders]_vars

\* Header rows: two rows of names, numbers and empty cells in every format,
\* with and without a bold first row
HeadCols == 2

HeadValues == {NoneVal, Str(<<"A">>), Str(<<"1">>)}

BoldFirstRow ==
    [NoMetadata EXCEPT !.styles =
        [rc \in {0} \X (0..(HeadCols - 1)) |-> [bold |-> TRUE, bg_color |-> FALSE]]]

\* One row of four names and three numbers: its text ratio is 4/7.
FourOfSeven == <<[c \in 1..7 |-> IF c <= 4 THEN Str(<<"A">>) ELSE Str(<<"1">>)]>>

\* Only an xlsx sheet comes with styles.
HeadSheets(format) ==
    {Sheet(df, md) : df \in Frames(2, HeadCols, HeadValues) \cup {FourOfSeven},
                     md \in IF format = "xlsx" THEN {NoMetadata, BoldFirstRow}
                            ELSE {NoMetadata}}

HeadConfigs ==
    {[DefaultConfig EXCEPT !.min_block_height = 1, !.min_block_width = 1,
                           !.max_header_rows = mw[1], !.header_style_weight = mw[2]] :
        mw \in (1..2) \X {30, 100}}

InitHead == InitWith(HeadConfigs, {"xlsx", "xlsb", "csv"}, {1})

NextHead ==
    \/ ReadFile
    \/ \E sheet \in HeadSheets(file_format) : BuildGrid(sheet)
    \/ SplitBlocks
    \/ ParseHeaders

SpecHead == InitHead /\ [][NextHead]_vars

\* Sheets with repeated rows and cells holding one space
MidRows == 3

MidCols == 2

MidValues == {Str(<<"A">>), Str(<<" ">>), Str(<<"1">>)}

MidSheets == {Sheet(df, NoMetadata) : df \in Frames(MidRows, MidCols, MidValues)}

MidConfigs ==
    {[DefaultConfig EXCEPT !.min_block_height = 1, !.min_block_width = 1,
                           !.max_header_rows = m] : m \in 1..2}

InitMid == InitWith(MidConfigs, {"xlsx"}, {1})

NextMid ==
    \/ ReadFile
    \/ \E sheet \in MidSheets : BuildGrid(sheet)
    \/ SplitBlocks
    \/ ParseHeaders
    \/ ScoreBlocks
    \/ ProcessBlock
    \/ Finish

SpecMid == InitMid /\ [][NextMid]_vars

\* One-cell sheets: the cell is missing or holds any string of up to
\* TypeLen characters out of TypeChars
TypeLen == 6

TypeChars == {"1", "-", "n", "a", " ", ","}

TypeValues == {NoneVal} \cup {Str(t) : t \in UNION {[1..n -> TypeChars] : n \in 0..TypeLen}}

TypeSheets == {Sheet(<<<<v>>>>, NoMetadata) : v \in TypeValues}

InitTypes == InitWith({DefaultConfig}, {"xlsx", "csv"}, {1})

NextTypes ==
    \/ ReadFile
    \/ pc = "sheets" /\ \E sheet \in TypeSheets : BuildGrid(sheet)

SpecTypes == InitTypes /\ [][NextTypes]_vars

\* Successive calls in one process
MaxRuns == 3

MaxEvents == 2


\* Before the first call: nothing parsed, no logger made.
InitProcess ==
    /\ InitWith({DefaultConfig}, {"xlsx"}, {1})
    /\ pc = "start"

logger_unchanged ==
    UNCHANGED <<flood_vars, config, file_format, n_sheets, sheet_i, df_raw, metadata,
                O, B, S, T, blocks, header_hierarchies, scores, main_block_id, block_i,
                all_dfs, all_metas, log, manifest, call_vars, run_vars, key_vars>>

\* The log directory of the call in progress.
log_dir == run_dirs[Len(run_dirs)]

\* The n-th event of call k.
LogEvent(k, n) == [run |-> k, n |-> n]

\* logger.info / warning / error: every handler of the logger appends the
\* record to its file.
RECURSIVE call_handlers(_, _, _)
call_handlers(hs, txt, record) ==
    IF hs = <<>> THEN txt
    ELSE call_handlers(Tail(hs), [txt EXCEPT ![Head(hs)] = Append(@, record)], record)

\* DualLogger.log: one line to the logger's own JSON-lines file, then one
\* record to the text logger.
DualLogger_log ==
    LET record == LogEvent(Len(run_dirs), logged[Len(run_dirs)] + 1)
    IN /\ jsonl_files' = [jsonl_files EXCEPT ![log_dir] = Append(@, record)]
       /\ txt_files' = call_handlers(handlers, txt_files, record)
       /\ logged' = [logged EXCEPT ![Len(run_dirs)] = @ + 1]
       /\ UNCHANGED <<run_dirs, handlers>>

\* parse_file up to DualLogger(log_dir): the run directory is named by the
\* second the call starts in, so it is the previous call's directory or a
\* new one.  The handler is added to the process-wide logger and opens
\* run.log.txt for appending; run.log.jsonl is opened with "w".
StartRun(same_second) ==
    /\ pc = "start"
    /\ Len(run_dirs) < MaxRuns
    /\ same_second => run_dirs # <<>>
    /\ LET d == IF same_second THEN log_dir ELSE Len(txt_files) + 1
       IN /\ run_dirs' = Append(run_dirs, d)
          /\ handlers' = Append(handlers, d)
          /\ txt_files' = IF same_second THEN txt_files ELSE Append(txt_files, <<>>)
          /\ jsonl_files' = IF same_second THEN [jsonl_files EXCEPT ![d] = <<>>]
                            ELSE Append(jsonl_files, <<>>)
          /\ logged' = Append(logged, 0)
    /\ pc' = "logging"
    /\ logger_unchanged

\* One logger.log call of the try block.
LogInRun ==
    /\ pc = "logging"
    /\ logged[Len(run_dirs)] < MaxEvents
    /\ DualLogger_log
    /\ pc' = "logging"
    /\ logger_unchanged

\* The call ends: run.end is logged on return and error before the
\* exception is raised again; finally logger.close() closes the JSON-lines
\* file and leaves the text logger's handlers as they are.
EndRun ==
    /\ pc = "logging"
    /\ DualLogger_log
    /\ pc' = "start"
    /\ logger_unchanged

NextProcess ==
    \/ \E same_second \in BOOLEAN : StartRun(same_second)
    \/ LogInRun
    \/ EndRun

SpecProcess == InitProcess /\ [][NextProcess]_vars

\* The flood fill on every occupancy pattern of a small grid
FloodRows == 2

FloodCols == 3

FloodGrids == [1..FloodRows -> [1..FloodCols -> 0..1]]

FloodConfigs ==
    {[DefaultConfig EXCEPT !.hole_tolerance_rows = ht[1], !.hole_tolerance_cols = ht[2]] :
        ht \in (0..1) \X (0..1)}

InitFloodFill == InitFlood(FloodConfigs, FloodGrids)

NextFlood ==
    \/ ScanSkip
    \/ ScanSeed
    \/ BfsPop
    \/ BfsReturn
    \/ ScanEnd

SpecFlood == InitFloodFill /\ [][NextFlood]_vars

-----------------------------------------------------------------------------
(* Properties *)

\* The current sheet's blocks have been computed from the current O.
BlocksReady == pc \notin {"start", "split"}

Overlap(a, b) == a.r0 < b.r1 /\ b.r0 < a.r1 /\ a.c0 < b.c1 /\ b.c0 < a.c1

\* C1: every Block returned by split_blocks is at least min_block_height high
\* and min_block_width wide, and its half-open bbox is non-empty and lies
\* within the grid.
C1_BlocksMeetMinimumAndFit ==
    BlocksReady =>
        \A i \in 1..Len(blocks) :
            /\ height(blocks[i]) >= config.min_block_height
            /\ width(blocks[i]) >= config.min_block_width
            /\ 0 <= blocks[i].r0 /\ blocks[i].r0 < blocks[i].r1
            /\ blocks[i].r1 <= NRows(O)
            /\ 0 <= blocks[i].c0 /\ blocks[i].c0 < blocks[i].c1
            /\ blocks[i].c1 <= NCols(O)

\* C1 witness: split_blocks returned several blocks because the MDL decision
\* replaced a component by its gap slabs.
C1_Witness ==
    /\ pc = "headers"
    /\ Len(blocks) >= 2
    /\ LET kept == size_filter(_connected_components(O, config), config)
       IN \E i \in 1..Len(kept) : Len(_mdl_split_decision(kept[i], O, config)) > 1

\* C2: the Blocks returned by split_blocks for one grid are pairwise
\* non-overlapping: no cell lies in the rectangles of two returned Blocks.
C2_BlocksDisjoint ==
    BlocksReady =>
        \A i, j \in 1..Len(blocks) : i # j => ~Overlap(blocks[i], blocks[j])

NonBlank(val) == notna(val) /\ \E i \in 1..Len(str(val)) : str(val)[i] \notin Whitespace

\* C3: O has the shape of the sheet, and O[r, c] = 1 exactly when the cell
\* is non-null, holds a character that is not white space, and neither r is
\* a hidden row nor c a hidden column.
C3_OccupancyIffPresentAndVisible ==
    pc = "split" =>
        /\ NRows(O) = NRows(df_raw) /\ NCols(O) = NCols(df_raw)
        /\ \A r \in 0..(NRows(df_raw) - 1), c \in 0..(NCols(df_raw) - 1) :
              iloc(O, r, c) \in {0, 1}
              /\ (iloc(O, r, c) = 1 <=>
                     /\ NonBlank(iloc(df_raw, r, c))
                     /\ r \notin metadata.hidden_rows
                     /\ c \notin metadata.hidden_cols)

\* C3 witness: a sheet with a hidden column holding a non-blank cell, a
\* visible cell of white space only, and a visible non-blank cell.
C3_Witness ==
    /\ pc = "split"
    /\ \E r \in 0..(NRows(df_raw) - 1), c \in metadata.hidden_cols :
          c < NCols(df_raw) /\ NonBlank(iloc(df_raw, r, c)) /\ iloc(O, r, c) = 0
    /\ \E r \in 0..(NRows(df_raw) - 1), c \in 0..(NCols(df_raw) - 1) :
          /\ notna(iloc(df_raw, r, c)) /\ str(iloc(df_raw, r, c)) # <<>>
          /\ ~NonBlank(iloc(df_raw, r, c)) /\ iloc(O, r, c) = 0
          /\ r \notin metadata.hidden_rows /\ c \notin metadata.hidden_cols
    /\ \E r \in 0..(NRows(df_raw) - 1), c \in 0..(NCols(df_raw) - 1) :
          iloc(O, r, c) = 1

\* C4: among the TableMeta records of one sheet at most one has is_main, its
\* score.total is not below the total of any other block of the sheet, and
\* of several blocks with that total it is the earliest.
C4_OneMainMaximalEarliest ==
    \A k, j \in 1..Len(all_metas) :
        (k # j /\ all_metas[k].sheet = all_metas[j].sheet /\ all_metas[k].is_main) =>
            /\ ~all_metas[j].is_main
            /\ ~RatLt(all_metas[k].score.total, all_metas[j].score.total)
            /\ (RatEq(all_metas[k].score.total, all_metas[j].score.total) => k < j)

\* C4 witness: a finished run in which the main table of one sheet is the
\* first of two blocks with the same total and the main table of another
\* sheet is its second block, which beats the first.
C4_Witness ==
    /\ pc = "done"
    /\ \E k, j \in 1..Len(all_metas) :
          /\ k < j /\ all_metas[k].sheet = all_metas[j].sheet
          /\ all_metas[k].is_main
          /\ RatEq(all_metas[k].score.total, all_metas[j].score.total)
    /\ \E k, j \in 1..Len(all_metas) :
          /\ k < j /\ all_metas[k].sheet = all_metas[j].sheet
          /\ all_metas[j].is_main
          /\ RatLt(all_metas[k].score.total, all_metas[j].score.total)

\* header_hierarchies holds the parse_headers results of the current blocks.
HeadersReady == pc \in {"score", "blocks"}

Distinct(names) == \A i, j \in 1..Len(names) : i # j => names[i] # names[j]

\* C5: the leaf column names parse_headers produces for a block are pairwise
\* distinct, with detected header rows and with the first-row fallback.
C5_LeafColumnsDistinct ==
    HeadersReady =>
        \A i \in 1..Len(blocks) : Distinct(header_hierarchies[i].leaf_columns)

\* C6: where header rows were detected, the first occurrence of every
\* collected leaf name is left unchanged by the duplicate handling.
C6_FirstOccurrenceUnchanged ==
    HeadersReady =>
        \A i \in 1..Len(blocks) :
            LET hh == header_hierarchies[i]
                names == collected_names(df_raw, blocks[i], hh.header_rows,
                                         metadata.merged_cells, config)
            IN hh.header_rows # <<>> =>
                   \A k \in 1..Len(names) :
                       (\A j \in 1..(k - 1) : names[j] # names[k]) =>
                           hh.leaf_columns[k] = names[k]

\* C7: every recorded header row r of a block satisfies r0 <= r < r1 and
\* r < r0 + max_header_rows; header_rows is strictly increasing and has at
\* most max_header_rows entries.
C7_HeaderRowsBounded ==
    HeadersReady =>
        \A i \in 1..Len(blocks) :
            LET rows == header_hierarchies[i].header_rows
            IN /\ Len(rows) <= config.max_header_rows
               /\ \A k \in 1..Len(rows) :
                     /\ blocks[i].r0 <= rows[k] /\ rows[k] < blocks[i].r1
                     /\ rows[k] < blocks[i].r0 + config.max_header_rows
               /\ \A k \in 1..(Len(rows) - 1) : rows[k] < rows[k + 1]

\* C7 witness: a block with max_header_rows header rows whose next row also
\* scores above the threshold and is not recorded.
C7_Witness ==
    /\ pc = "score"
    /\ \E i \in 1..Len(blocks) :
          LET rows == header_hierarchies[i].header_rows
              next == blocks[i].r0 + config.max_header_rows
          IN /\ Len(rows) = config.max_header_rows
             /\ next < blocks[i].r1
             /\ RatLt(Rat(40, 1),
                      header_row_score(df_raw, blocks[i], O, S, T, config, file_format, next))

\* C8: parse_headers yields one leaf column name per column of the block,
\* and the assignment of the names in parse_file does not fail.
C8_OneNamePerColumn ==
    /\ pc # "raised"
    /\ HeadersReady =>
          \A i \in 1..Len(blocks) :
              Len(header_hierarchies[i].leaf_columns) = width(blocks[i])

\* C8 witness: a finished run that emitted a table named from detected
\* header rows with duplicates renamed and a table named from its first row.
C8_Witness ==
    /\ pc = "done"
    /\ \E k \in 1..Len(all_metas) :
          /\ all_metas[k].header.header_rows # <<>>
          /\ Len(all_dfs[k].columns) >= 2
          /\ all_dfs[k].columns[1] = <<"A", "_", "1">>
    /\ \E k \in 1..Len(all_metas) :
          /\ all_metas[k].header.header_rows = <<>>
          /\ all_dfs[k].columns = all_metas[k].header.leaf_columns

BlockOf(meta) == Block(meta.bbox[1], meta.bbox[2], meta.bbox[3], meta.bbox[4])

\* Row r of the sheet repeats the cell values of header row h over the
\* columns of block b, none of them blank.
RepeatsHeader(b, h, r) ==
    \A c \in b.c0..(b.c1 - 1) :
        NonBlank(iloc(df_raw, h, c)) /\ iloc(df_raw, r, c) = iloc(df_raw, h, c)

HeaderFilled(b, h) == \A c \in b.c0..(b.c1 - 1) : NonBlank(iloc(df_raw, h, c))

\* The rows of block b below and above header row h that do not repeat it.
RowsKept(b, h) ==
    LET keep == ascending({r \in b.r0..(b.r1 - 1) : r # h /\ ~RepeatsHeader(b, h, r)})
    IN [i \in 1..Len(keep) |->
           [k \in 1..width(b) |-> iloc(df_raw, keep[i], b.c0 + k - 1)]]

\* C9: with allow_mid_headers, the table emitted for a block with one
\* detected header row, all of whose cells are filled, holds the block's
\* other rows in order except those repeating the header row's values.
C9_RepeatedHeaderOmitted ==
    \A k \in 1..Len(all_metas) :
        LET b == BlockOf(all_metas[k])
            rows == all_metas[k].header.header_rows
        IN (config.allow_mid_headers /\ Len(rows) = 1 /\ HeaderFilled(b, rows[1])) =>
               all_dfs[k].rows = RowsKept(b, rows[1])

\* The row positions clean_dataframe removed from the k-th emitted table.
RemovedRows(k) ==
    clean_dataframe(with_header_applied(df_raw, BlockOf(all_metas[k]), all_metas[k].header),
                    all_metas[k].header.header_rows, config).removed_rows

\* C10: the run does not abort; once it is finished, the TableMeta of every
\* block that lost a row to mid-header removal lists MidHeadersRemoved and
\* the manifest counts that code, and the other blocks have no warnings.
C10_RemovalWarningRecorded ==
    /\ pc # "raised"
    /\ pc = "done" =>
          \A k \in 1..Len(all_metas) :
              IF RemovedRows(k) # <<>>
              THEN /\ "MidHeadersRemoved" \in Range(all_metas[k].warnings)
                   /\ "MidHeadersRemoved" \in DOMAIN manifest.warnings
                   /\ manifest.warnings["MidHeadersRemoved"] >= 1
              ELSE all_metas[k].warnings = <<>>

\* The call is one the contract forbids, and the error it must raise.
IsWorkbook == lower(ext) \in {suffix_of("xlsx"), suffix_of("xlsb")}

IsDelimitedText == lower(ext) = suffix_of("csv")

ExpectedRejection ==
    IF ~IsWorkbook /\ ~IsDelimitedText THEN "UnsupportedFormat"
    ELSE IF IsDelimitedText
    THEN IF sheet_name.given /\ sheet_name.names # <<>> THEN "InvalidArgument" ELSE ""
    ELSE IF ~sheet_name.given \/ sheet_name.names = <<>> THEN "InvalidArgument" ELSE ""

NothingCreated ==
    /\ files = {} /\ csv_files = {} /\ sinks = NoSinks /\ log = <<>>
    /\ ~manifest.written /\ exports = <<>>

\* C11: a call with an unknown suffix raises UnsupportedFormat, a csv call
\* with a non-empty sheet list and a workbook call without sheets raise
\* InvalidArgument, and a rejected call has created no run directory, log
\* file, output file or manifest.
C11_InvalidCallsFailBeforeWork ==
    /\ (pc # "called" /\ ExpectedRejection # "") =>
           (pc = "rejected" /\ error = ExpectedRejection)
    /\ pc = "rejected" => (ExpectedRejection # "" /\ NothingCreated)

C11_Witness ==
    /\ pc = "rejected" /\ error = "InvalidArgument"
    /\ IsDelimitedText /\ sheet_name = SheetList(<<SheetName(1)>>)

\* C12: when reading the input or writing an artifact fails, the run stops
\* there with that error, no manifest is written, and both the plain-text
\* sink and the JSON-lines sink of the logger have been closed.
C12_FailureAbortsAndClosesSinks ==
    (pc = "raised" /\ error \in {"FileRead", "OutputWrite"}) =>
        /\ ~manifest.written
        /\ "manifest.yml" \notin files
        /\ ~ENABLED NextRun
        /\ sinks.txt = "closed"
        /\ sinks.jsonl = "closed"

\* The TableMeta records of the sheet being processed, in key order
MetasOfSheet(i) == SelectSeq(all_metas, LAMBDA meta : meta.sheet = i)

\* C13: the keys are df1, df2, ..., dfN without gap or repeat, the table and
\* metadata dictionaries have the same keys, tables follow the order of the
\* sheets and, within a sheet, the order of the blocks split_blocks
\* returned, and a sheet without blocks takes no key.
C13_KeysSequentialInOrder ==
    /\ all_keys = [k \in 1..Len(all_keys) |-> k]
    /\ Len(all_dfs) = Len(all_keys)
    /\ Len(all_metas) = Len(all_keys)
    /\ \A j, k \in 1..Len(all_metas) : j < k => all_metas[j].sheet <= all_metas[k].sheet
    /\ (pc \in {"blocks", "sheets", "done"} /\ sheet_i >= 1) =>
           LET emitted == IF pc = "blocks" THEN block_i ELSE Len(blocks)
               mine == MetasOfSheet(sheet_i)
           IN /\ Len(mine) = emitted
              /\ \A i \in 1..emitted :
                     mine[i].bbox = <<blocks[i].r0, blocks[i].r1, blocks[i].c0, blocks[i].c1>>

C13_Witness ==
    /\ pc = "done" /\ all_keys = <<1, 2, 3>>
    /\ all_metas[2].sheet = 1 /\ all_metas[3].sheet = 2

\* The characters a file-name stem must not contain
ForbiddenChars == {"\\", "/", ":", "*", "?", "\"", "<", ">", "|"}

StemSafe(e) ==
    /\ Range(e.name) \cap ForbiddenChars = {}
    /\ e.name # <<>>
    /\ strip(e.table_name) = <<>> => e.name = TableName
    /\ Len(e.name) <= (IF config.long_path_support THEN 200 ELSE 120)

\* C14 as stated: for every name given to export_csv the sanitized stem has
\* no forbidden character, is not empty (an empty or blank name gives
\* "table") and has at most 200 characters, 120 without long-path support.
C14_StemSafeForEveryName == \A i \in 1..Len(exports) : StemSafe(exports[i])

\* C14 amended: the same, for every name, when config.sanitize_file_name is
\* set; with the option off the name is used as it is given.
C14_StemSafeWhenSanitizing ==
    config.sanitize_file_name => \A i \in 1..Len(exports) : StemSafe(exports[i])

C14_Witness ==
    /\ config.sanitize_file_name /\ ~config.long_path_support
    /\ \E i, j, k \in 1..Len(exports) :
           /\ exports[i].table_name = <<" ", "\t">> /\ exports[i].name = TableName
           /\ Len(exports[j].table_name) = 121 /\ Len(exports[j].name) = 120
           /\ exports[k].table_name = <<":", "*", "?">> /\ exports[k].name = <<"_", "_", "_">>

\* C15: in a sequence of export_csv calls with one sanitized name and one
\* timestamp no call writes to a file that existed, the first call writes
\* <name>_<ts>.csv and the k-th call <name>_dup{k-1}_<ts>.csv, also for a
\* name that ends in _dup0.
C15_CollisionSuffixCounts ==
    (\A i, j \in 1..Len(exports) : exports[i].name = exports[j].name) =>
        \A i \in 1..Len(exports) :
            /\ ~exports[i].existed
            /\ exports[i].path =
                   IF i = 1 THEN exports[i].name \o stamp_csv
                   ELSE exports[i].name \o dup_suffix(i - 1) \o stamp_csv

\* C16: two export_csv calls that interleave on one directory never write
\* the same path, and no call writes over a file another call created.
C16_ExclusiveCreate ==
    /\ \A i \in 1..Len(exports) : ~exports[i].existed
    /\ \A i, j \in 1..Len(exports) : i # j => exports[i].path # exports[j].path

\* The sheet holds two fully occupied tables at columns 0-2 and 4-6 around
\* an empty column 3, each large enough for the configured minimum.
SideBySide ==
    /\ NRows(O) >= config.min_block_height /\ NCols(O) = 7
    /\ config.min_block_width <= 3
    /\ \A r \in 0..(NRows(O) - 1), c \in 0..6 : iloc(O, r, c) = (IF c = 3 THEN 0 ELSE 1)

TwoTablesHigherIsMain ==
    /\ Len(all_metas) = 2
    /\ <<all_metas[1].bbox[3], all_metas[1].bbox[4]>> = <<0, 3>>
    /\ <<all_metas[2].bbox[3], all_metas[2].bbox[4]>> = <<4, 7>>
    /\ all_metas[1].is_main # all_metas[2].is_main
    /\ RatLt(all_metas[1].score.total, all_metas[2].score.total) => all_metas[2].is_main
    /\ RatLt(all_metas[2].score.total, all_metas[1].score.total) => all_metas[1].is_main

\* C17 as stated: for two tables side by side around an empty column 3 the
\* run emits exactly two tables, of column ranges [0,3) and [4,7), and the
\* one with the higher total score is the main one.
C17_TwoBlocksSideBySide == (pc = "done" /\ SideBySide) => TwoTablesHigherIsMain

\* C17 amended: the same when hole_tolerance_cols is 0; a tolerance of one
\* column or more joins the two tables into one block.
C17_TwoBlocksWithoutColumnTolerance ==
    (pc = "done" /\ SideBySide /\ config.hole_tolerance_cols = 0) => TwoTablesHigherIsMain

C17_Witness ==
    /\ pc = "done" /\ SideBySide /\ config.hole_tolerance_cols = 0
    /\ Len(all_metas) = 2 /\ all_metas[2].is_main
    /\ RatLt(all_metas[1].score.total, all_metas[2].score.total)

\* T with the cells of the hidden columns set to 0 (empty)
HiddenAsEmpty ==
    [r \in 1..NRows(T) |->
        [c \in 1..NCols(T) |-> IF (c - 1) \in metadata.hidden_cols THEN 0 ELSE T[r][c]]]

\* The scores of the i-th block with the hidden columns read as empty
ScoreHiddenAsEmpty(i) ==
    calculate_table_score(blocks[i], O, HiddenAsEmpty, B, header_hierarchies[i].header_rows)

\* C18: with include_hidden off a hidden column has occupancy 0 in every
\* row, no Block begins or ends with it, and in a Block that spans it the
\* density and the type consistency are those of the block with the
\* column's cells empty.
C18_HiddenColumnEmptyInScores ==
    (pc = "blocks" /\ ~config.include_hidden) =>
        \A c \in metadata.hidden_cols :
            /\ \A r \in 0..(NRows(O) - 1) : iloc(O, r, c) = 0
            /\ \A i \in 1..Len(blocks) :
                   /\ c # blocks[i].c0 /\ c # blocks[i].c1 - 1
                   /\ (blocks[i].c0 < c /\ c < blocks[i].c1 - 1) =>
                          /\ RatEq(scores[i].density, ScoreHiddenAsEmpty(i).density)
                          /\ RatEq(scores[i].type_consistency,
                                   ScoreHiddenAsEmpty(i).type_consistency)

\* The trimmed text header row r shows in column c: that of the anchor of
\* the merged range the cell lies in, its own otherwise; <<>> when empty.
TitleAt(r, c) ==
    LET over == {k \in 1..Len(metadata.merged_cells) :
                    /\ metadata.merged_cells[k].min_row <= r
                    /\ r <= metadata.merged_cells[k].max_row
                    /\ metadata.merged_cells[k].min_col <= c
                    /\ c <= metadata.merged_cells[k].max_col}
        cell == IF over = {} THEN iloc(df_raw, r, c)
                ELSE LET m == metadata.merged_cells[CHOOSE k \in over : TRUE]
                     IN iloc(df_raw, m.min_row, m.min_col)
    IN IF notna(cell) THEN strip(str(cell)) ELSE <<>>

\* The distinct non-empty titles of column c over the rows, top to bottom
RECURSIVE TitlePath(_, _)
TitlePath(rows, c) ==
    IF rows = <<>> THEN <<>>
    ELSE LET above == TitlePath(SubSeq(rows, 1, Len(rows) - 1), c)
             title == TitleAt(rows[Len(rows)], c)
         IN IF title = <<>> \/ title \in Range(above) THEN above ELSE Append(above, title)

ExpectedLeaf(rows, c) ==
    LET path == TitlePath(rows, c)
    IN IF path = <<>> THEN <<"C", "o", "l", "u", "m", "n">> \o int_str(c)
       ELSE IF config.keep_leaf_only THEN path[Len(path)]
       ELSE join(<<"/">>, path)

RevenueCostFrame ==
    TwoLevelFrame(Str(Revenue), Str(Cost),
                  <<Str(Year2023), Str(Year2024), Str(Year2023), Str(Year2024)>>)

RevenueCostLeaves ==
    <<Revenue \o <<"/">> \o Year2023, Revenue \o <<"/">> \o Year2024,
      Cost \o <<"/">> \o Year2023, Cost \o <<"/">> \o Year2024>>

\* C19: for a block with header rows, the name of each column whose name is
\* not shared is the last title of its path with keep_leaf_only, the path
\* joined with "/" without it and Column{c} for an empty path, the path
\* being the distinct non-empty titles of the header rows from the top with
\* merged cells showing their anchor's value; Revenue and Cost merged over
\* 2023, 2024, 2023, 2024 give Revenue/2023, Revenue/2024, Cost/2023 and
\* Cost/2024 without keep_leaf_only.
C19_HeaderExpansion ==
    pc = "score" =>
        \A i \in 1..Len(blocks) :
            LET rows == header_hierarchies[i].header_rows
                names == header_hierarchies[i].leaf_columns
                expected == [k \in 1..width(blocks[i]) |->
                                ExpectedLeaf(rows, blocks[i].c0 + k - 1)]
            IN rows # <<>> =>
                   /\ Len(names) = Len(expected)
                   /\ \A k \in 1..Len(expected) :
                          (\A j \in 1..Len(expected) : expected[j] = expected[k] => j = k)
                              => names[k] = expected[k]
                   /\ (df_raw = RevenueCostFrame /\ rows = <<0, 1>>
                         /\ ~config.keep_leaf_only) => names = RevenueCostLeaves

C19_Witness ==
    /\ pc = "score" /\ df_raw = RevenueCostFrame /\ ~config.keep_leaf_only
    /\ Len(blocks) = 1
    /\ header_hierarchies[1].header_rows = <<0, 1>>
    /\ header_hierarchies[1].leaf_columns = RevenueCostLeaves

\* The cells of the first 10 rows and first 5 columns of the k-th emitted
\* table that match the pattern, as <<r, c>>
UnitCells(k, pattern) ==
    {rc \in (0..(Min(10, Len(all_dfs[k].rows)) - 1))
              \X (0..(Min(5, Len(all_dfs[k].columns)) - 1)) :
        /\ notna(iloc(all_dfs[k].rows, rc[1], rc[2]))
        /\ regex_match(pattern, str(iloc(all_dfs[k].rows, rc[1], rc[2])))}

\* The trimmed text of the first of the cells in row-major order
FirstText(k, cells) ==
    LET first == CHOOSE a \in cells : \A b \in cells : row_major_before(a, b)
    IN Str(strip(str(iloc(all_dfs[k].rows, first[1], first[2]))))

\* The table of the k-th entry as parse_file hands it to clean_dataframe
TableBeforeCleaning(k) ==
    with_header_applied(df_raw, BlockOf(all_metas[k]), all_metas[k].header)

\* Unit extraction left the rows alone: the emitted table is the block's
\* table without the rows mid-header removal dropped.
RowsUntouched(k) ==
    all_dfs[k].rows = drop_rows(TableBeforeCleaning(k).rows, Range(RemovedRows(k)))

\* C20 as stated: units is the trimmed text of the first cell, among the
\* first 10 rows and 5 columns of the table, that matches a configured
\* pattern, and absent when no cell matches; extraction changes no row.
C20_UnitsOfFirstMatchingCell ==
    \A k \in 1..Len(all_metas) :
        LET cells == UNION {UnitCells(k, config.unit_line_patterns[p]) :
                               p \in 1..Len(config.unit_line_patterns)}
        IN /\ all_metas[k].units = IF cells = {} THEN NoneVal ELSE FirstText(k, cells)
           /\ RowsUntouched(k)

\* C20 amended: the patterns are tried in their configured order, and units
\* is the trimmed text of the first cell matching the first pattern that
\* matches any cell of the window.
C20_UnitsOfFirstMatchingPattern ==
    \A k \in 1..Len(all_metas) :
        LET matching == {p \in 1..Len(config.unit_line_patterns) :
                            UnitCells(k, config.unit_line_patterns[p]) # {}}
        IN /\ all_metas[k].units =
                  IF matching = {} THEN NoneVal
                  ELSE FirstText(k, UnitCells(k, config.unit_line_patterns[
                           CHOOSE p \in matching : \A q \in matching : p <= q]))
           /\ RowsUntouched(k)

C20_Witness ==
    /\ pc = "done" /\ Len(all_metas) = 1
    /\ config.unit_line_patterns = <<"colon", "paren">>
    /\ all_dfs[1].rows[1] = <<Str(UnitParen), Str(<<" ">> \o UnitChars \o <<":", " ">>)>>
    /\ all_metas[1].units = Str(UnitChars \o <<":">>)

Occupied == {rc \in Cells(O) : iloc(O, rc[1], rc[2]) = 1}

Abs(x) == IF x < 0 THEN -x ELSE x

\* Two distinct cells lie in each other's neighbourhood.
Near(a, b) ==
    /\ a # b
    /\ Abs(a[1] - b[1]) <= config.hole_tolerance_rows + 1
    /\ Abs(a[2] - b[2]) <= config.hole_tolerance_cols + 1

\* The occupied cells a chain of occupied cells links to a cell of X.
RECURSIVE Linked(_)
Linked(X) ==
    LET Y == X \cup {b \in Occupied : \E a \in X : Near(a, b)}
    IN IF Y = X THEN X ELSE Linked(Y)

\* Every flag is set at most once and only on occupied cells; the finished
\* components are disjoint, and each is the whole class of its cells; when
\* the scan is over every occupied cell is in one of them, and the Blocks
\* are those _connected_components returns.
FloodClasses ==
    /\ flood_visited \subseteq Occupied
    /\ \A rc \in DOMAIN marks : marks[rc] = (IF rc \in flood_visited THEN 1 ELSE 0)
    /\ \A i, j \in 1..Len(components) :
           i # j => components[i].cells \cap components[j].cells = {}
    /\ \A i \in 1..Len(components) :
           /\ components[i].cells # {}
           /\ \A a \in components[i].cells : components[i].cells = Linked({a})
    /\ pc = "scanned" =>
           /\ UNION {components[i].cells : i \in 1..Len(components)} = Occupied
           /\ flood_visited = Occupied
           /\ [i \in 1..Len(components) |-> components[i].block]
                  = _connected_components(O, config)

\* A measure every step of the flood fill lowers: it cannot run for ever.
FloodVariant ==
    3 * Cardinality(Occupied \ flood_visited) + Len(flood_queue)
    + 2 * (NRows(O) * NCols(O) - scan_k)
    + (IF pc = "bfs" THEN 1 ELSE 0) + (IF pc = "scanned" THEN 0 ELSE 1)

FloodProgress == FloodVariant' < FloodVariant /\ FloodVariant' >= 0

\* C21: the flood fill terminates, sets the visited flag of each occupied
\* cell exactly once, and its components are the classes of the occupied
\* cells under chains of neighbouring occupied cells.
C21_FloodFillYieldsClasses == []FloodClasses /\ [][FloodProgress]_vars

\* The scan is over and a component holds two cells that are not neighbours,
\* linked through a third.
C21_Witness ==
    /\ pc = "scanned"
    /\ \E i \in 1..Len(components) :
           \E a, b \in components[i].cells : a # b /\ ~Near(a, b)

\* The blocks split_blocks hands to _mdl_split_decision, in order.
MdlCandidates ==
    LET kept == size_filter(_connected_components(O, config), config)
    IN IF file_format = "xlsx" /\ B.present THEN _enhance_with_borders(kept, O, B)
       ELSE kept

\* Occupied cells of a block over its area, and the two costs, in hundredths.
OccupiedShare(b) ==
    Rat(Cardinality({rc \in Cells(O) : /\ b.r0 <= rc[1] /\ rc[1] < b.r1
                                       /\ b.c0 <= rc[2] /\ rc[2] < b.c1
                                       /\ iloc(O, rc[1], rc[2]) = 1}),
        Max((b.r1 - b.r0) * (b.c1 - b.c0), 1))

CostKeep(b) ==
    RatAdd(RatScale(config.mdl_weights[1] + config.mdl_weights[2],
                    RatOneMinus(OccupiedShare(b))),
           Rat(config.mdl_weights[3], 1))

RECURSIVE CostSplit(_)
CostSplit(slabs) ==
    IF slabs = <<>> THEN Rat(0, 1)
    ELSE RatAdd(RatAdd(RatScale(config.mdl_weights[1] + config.mdl_weights[2],
                                RatOneMinus(OccupiedShare(Head(slabs)))),
                       Rat(config.mdl_weights[3], 1)),
                CostSplit(Tail(slabs)))

SplitAttempted(b) ==
    \/ RatLt(OccupiedShare(b), Rat(config.density_threshold, 100))
    \/ RatLt(OccupiedShare(b), Rat(config.rectangularity_threshold, 100))

ExpectedDecision(b) ==
    LET slabs == _try_split_by_gaps(b, O, config)
    IN IF SplitAttempted(b) /\ Len(slabs) >= 2 /\ RatLt(CostSplit(slabs), CostKeep(b))
       THEN slabs ELSE <<b>>

RECURSIVE Concat(_)
Concat(ss) == IF ss = <<>> THEN <<>> ELSE Head(ss) \o Concat(Tail(ss))

Unnumbered(bs) == [i \in 1..Len(bs) |-> [bs[i] EXCEPT !.block_id = 0]]

SplitDone == pc \in {"headers", "sheets"} /\ sheet_i > 0

EmptyLines(b, axis) ==
    IF axis = 1
    THEN {r \in b.r0..(b.r1 - 1) : \A c \in b.c0..(b.c1 - 1) : iloc(O, r, c) = 0}
    ELSE {c \in b.c0..(b.c1 - 1) : \A r \in b.r0..(b.r1 - 1) : iloc(O, r, c) = 0}

\* slabs cut b along one axis: inside b, full on the other axis, disjoint,
\* of the minimum extent at least, and free of b's empty lines.
CutAlong(b, slabs, axis) ==
    LET lo(x) == IF axis = 1 THEN x.r0 ELSE x.c0
        hi(x) == IF axis = 1 THEN x.r1 ELSE x.c1
        least == IF axis = 1 THEN config.min_block_height ELSE config.min_block_width
    IN /\ Len(slabs) >= 2
       /\ \A i \in 1..Len(slabs) :
              /\ IF axis = 1 THEN slabs[i].c0 = b.c0 /\ slabs[i].c1 = b.c1
                              ELSE slabs[i].r0 = b.r0 /\ slabs[i].r1 = b.r1
              /\ lo(b) <= lo(slabs[i]) /\ hi(slabs[i]) <= hi(b)
              /\ hi(slabs[i]) - lo(slabs[i]) >= least
              /\ (lo(slabs[i])..(hi(slabs[i]) - 1)) \cap EmptyLines(b, axis) = {}
       /\ \A i, j \in 1..Len(slabs) :
              i < j => hi(slabs[i]) <= lo(slabs[j])

\* The runs of lines between the empty lines of b that reach the minimum.
Runs(b, axis) ==
    LET lo == IF axis = 1 THEN b.r0 ELSE b.c0
        hi == IF axis = 1 THEN b.r1 ELSE b.c1
        least == IF axis = 1 THEN config.min_block_height ELSE config.min_block_width
        gap(x) == x \in EmptyLines(b, axis) \/ x < lo \/ x >= hi
    IN {run \in (lo..hi) \X (lo..hi) :
           /\ run[2] - run[1] >= least
           /\ gap(run[1] - 1) /\ gap(run[2])
           /\ (run[1]..(run[2] - 1)) \cap EmptyLines(b, axis) = {}}

RowsSplit(b) == Cardinality(EmptyLines(b, 1)) >= 2 /\ Cardinality(Runs(b, 1)) >= 2

ColsSplit(b) == Cardinality(EmptyLines(b, 2)) >= 2 /\ Cardinality(Runs(b, 2)) >= 2

\* C23: for every block handed to the decision, _try_split_by_gaps returns
\* slabs cut along the rows when the block has two empty rows and two row
\* slabs or more, else slabs cut along the columns under the same test on
\* columns, else the block alone; the slabs are disjoint, inside the block,
\* full on the other axis, of the minimum extent and free of empty lines.
C23_GapSplitAlongOneAxis ==
    SplitDone =>
        \A i \in 1..Len(MdlCandidates) :
            LET b == MdlCandidates[i]
                slabs == _try_split_by_gaps(b, O, config)
            IN IF RowsSplit(b) THEN CutAlong(b, slabs, 1)
               ELSE IF ColsSplit(b) THEN CutAlong(b, slabs, 2)
               ELSE slabs = <<b>>

\* A split was attempted on a block with two empty rows that give one slab
\* only, and the block was cut along its columns.
C23_Witness ==
    /\ SplitDone
    /\ \E i \in 1..Len(MdlCandidates) :
           LET b == MdlCandidates[i]
           IN /\ SplitAttempted(b)
              /\ Cardinality(EmptyLines(b, 1)) >= 2 /\ ~RowsSplit(b) /\ ColsSplit(b)
              /\ Len(_try_split_by_gaps(b, O, config)) >= 2

BlockCells(b) == (b.r0..(b.r1 - 1)) \X (b.c0..(b.c1 - 1))

\* The cells of a block on one of its four walls.
PerimeterCells(b) ==
    {rc \in BlockCells(b) : \/ rc[1] = b.r0 \/ rc[1] = b.r1 - 1
                            \/ rc[2] = b.c0 \/ rc[2] = b.c1 - 1}

\* The border flags set on the four walls of a block, facing outwards.
OutwardFlags(b) ==
    Cardinality({rc \in BlockCells(b) : rc[1] = b.r0 /\ iloc(B.m, rc[1], rc[2])[1] = 1})
    + Cardinality({rc \in BlockCells(b) : rc[2] = b.c1 - 1 /\ iloc(B.m, rc[1], rc[2])[2] = 1})
    + Cardinality({rc \in BlockCells(b) : rc[1] = b.r1 - 1 /\ iloc(B.m, rc[1], rc[2])[3] = 1})
    + Cardinality({rc \in BlockCells(b) : rc[2] = b.c0 /\ iloc(B.m, rc[1], rc[2])[4] = 1})

PerimeterShare(b) == Rat(OutwardFlags(b), Max(4 * Cardinality(PerimeterCells(b)), 1))

InUnit(q) == q.n >= 0 /\ q.n <= q.d

\* C24: with a border matrix, the border completeness of every block, as
\* the splitter and as the scorer compute it, is the number of outward
\* flags set on its walls over 4 times its perimeter cells, within [0, 1].
C24_BorderShareOfPerimeter ==
    (pc = "blocks" /\ B.present) =>
        \A i \in 1..Len(blocks) :
            /\ RatEq(scores[i].border_completeness, PerimeterShare(blocks[i]))
            /\ RatEq(_calculate_border_completeness(blocks[i], B),
                     PerimeterShare(blocks[i]))
            /\ InUnit(scores[i].border_completeness)
            /\ InUnit(_calculate_border_completeness(blocks[i], B))

\* The share of the most frequent type among the non-empty cells of column
\* c of a block; 0 when the column has none.
NonEmptyTypeShare(b, c) ==
    LET filled == {r \in b.r0..(b.r1 - 1) : iloc(T, r, c) # 0}
        count(t) == Cardinality({r \in filled : iloc(T, r, c) = t})
        most == CHOOSE n \in {count(t) : t \in 1..3} : \A t \in 1..3 : count(t) <= n
    IN IF filled = {} THEN Rat(0, 1) ELSE Rat(most, Cardinality(filled))

NonEmptyTypeConsistency(b) ==
    LET summed == RatSum([k \in 1..(b.c1 - b.c0) |-> NonEmptyTypeShare(b, b.c0 + k - 1)])
    IN Rat(summed.n, summed.d * Max(b.c1 - b.c0, 1))

\* C25: the type consistency of every block is the average over its
\* columns of the share of the most frequent type among the column's
\* non-empty cells.
C25_TypeShareOfNonEmptyCells ==
    (pc = "blocks" /\ block_i = 0) =>
        \A i \in 1..Len(blocks) :
            RatEq(scores[i].type_consistency, NonEmptyTypeConsistency(blocks[i]))

\* 0.4 * text_ratio + header_style_weight * mean(S[r, c0:c1])
\* + 0.3 * (1 - numeric_ratio) for row r of block b, in hundredths
StatedRowScore(b, r) ==
    LET cols == b.c0..(b.c1 - 1)
        texts == Cardinality({c \in cols : iloc(O, r, c) = 1 /\ iloc(T, r, c) = 1})
        numbers == Cardinality({c \in cols : iloc(O, r, c) = 1 /\ iloc(T, r, c) = 2})
        both == texts + numbers
        style_total == RatSum([k \in 1..(b.c1 - b.c0) |-> iloc(S, r, b.c0 + k - 1)])
        style_mean == Rat(style_total.n, style_total.d * (b.c1 - b.c0))
    IN RatAdd(RatAdd(IF both > 0 THEN RatScale(40, Rat(texts, both)) ELSE Rat(0, 1),
                     RatScale(config.header_style_weight, style_mean)),
              IF both > 0 THEN RatScale(30, RatOneMinus(Rat(numbers, both))) ELSE Rat(0, 1))

\* The rows of block b the header test looks at.
RowsTested(b) == b.r0..(Min(b.r0 + config.max_header_rows, b.r1) - 1)

StatedHeaderRows(b) == {r \in RowsTested(b) : RatLt(Rat(40, 1), StatedRowScore(b, r))}

HeadersParsed == pc = "score"

\* C26: in every format the header rows of a block are the rows among its
\* first max_header_rows whose score 0.4 * text_ratio + header_style_weight
\* * mean(S) + 0.3 * (1 - numeric_ratio) exceeds 0.4.
C26_HeaderRowsByScore ==
    HeadersParsed =>
        \A i \in 1..Len(blocks) :
            Range(header_hierarchies[i].header_rows) = StatedHeaderRows(blocks[i])

\* The name the first-row fallback is stated to give column c of block b.
StatedFallbackName(b, c) ==
    LET cell == iloc(df_raw, b.r0, c)
    IN IF NonBlank(cell) THEN str(cell)
       ELSE <<"C", "o", "l", "u", "m", "n">> \o int_str(c)

StatedFallbackNames(b) == [j \in 1..width(b) |-> StatedFallbackName(b, b.c0 + j - 1)]

\* C27: for an emitted block none of whose tested rows passes the header
\* test, header_rows is empty, every leaf name is the first-row cell's value
\* or Column{c} when that cell is null or blank, and the emitted table
\* holds every row of the block.
C27_FallbackToFirstRow ==
    \A k \in 1..Len(all_metas) :
        LET b == BlockOf(all_metas[k])
            hh == all_metas[k].header
        IN StatedHeaderRows(b) = {} =>
               /\ hh.header_rows = <<>>
               /\ hh.leaf_columns = StatedFallbackNames(b)
               /\ all_dfs[k].rows = block_frame(df_raw, b).rows

\* The leading (up to 5) trimmed cells of sheet row r inside block b.
LeadingCells(b, r) ==
    [k \in 1..Min(5, width(b)) |-> strip(str(iloc(df_raw, r, b.c0 + k - 1)))]

\* The signature: the leading cells of the first detected header row.
Signature(b, hh) == LeadingCells(b, hh.header_rows[1])

NonEmptyPositions(sig) == {k \in 1..Len(sig) : sig[k] # <<>>}

\* Row r equals the signature in at least 70% of its non-empty positions.
MatchesSignature(b, hh, r) ==
    LET sig == Signature(b, hh)
        equal == {k \in NonEmptyPositions(sig) : LeadingCells(b, r)[k] = sig[k]}
    IN /\ NonEmptyPositions(sig) # {}
       /\ 10 * Cardinality(equal) >= 7 * Cardinality(NonEmptyPositions(sig))

LastHeaderRow(hh) == CHOOSE m \in Range(hh.header_rows) : \A x \in Range(hh.header_rows) : x <= m

\* The sheet rows of block b mid-header removal is stated to drop.
StatedMidHeaders(b, hh) ==
    {r \in (LastHeaderRow(hh) + 1)..(b.r1 - 1) : MatchesSignature(b, hh, r)}

StatedDataRows(b, hh) ==
    LET keep == ascending({r \in b.r0..(b.r1 - 1) :
                    r \notin Range(hh.header_rows) /\ r \notin StatedMidHeaders(b, hh)})
    IN [i \in 1..Len(keep) |-> [k \in 1..width(b) |-> iloc(df_raw, keep[i], b.c0 + k - 1)]]

\* C28: with allow_mid_headers, the table emitted for a block with header
\* rows holds the block's other rows except those after the last header row
\* whose leading cells equal the first header row's leading cells in at
\* least 70% of the non-empty positions.
C28_MidHeadersBySignature ==
    \A k \in 1..Len(all_metas) :
        LET b == BlockOf(all_metas[k])
            hh == all_metas[k].header
        IN (config.allow_mid_headers /\ hh.header_rows # <<>>) =>
               all_dfs[k].rows = StatedDataRows(b, hh)

\* s without the characters the numeric test strips.
WithoutMarks(s) == SelectSeq(s, LAMBDA ch : ch \notin {",", "%", "U+00A5", "$"})

\* s is the decimal notation of a real number, white space around it aside.
IsRealNumber(s) == IsFloatNumber(Unsigned(strip(s)))

HasDateMarker(s) == \E i \in 1..Len(s) : s[i] \in DateIndicators

\* The type the fixed order empty, numeric, date-like, text gives a cell.
StatedType(val) ==
    IF ~NonBlank(val) THEN 0
    ELSE IF IsRealNumber(WithoutMarks(str(val))) THEN 2
    ELSE IF Len(str(val)) >= 6 /\ HasDateMarker(str(val)) THEN 3
    ELSE 1

GridBuilt == pc = "split"

\* C29: every cell's type is 0 when it is null or blank, otherwise 2 when
\* its text without , % and currency marks is a real number, otherwise 3
\* when it has 6 or more characters and a date marker, otherwise 1.
C29_TypeByFixedOrder ==
    GridBuilt =>
        \A r \in 0..(NRows(df_raw) - 1), c \in 0..(NCols(df_raw) - 1) :
            iloc(T, r, c) = StatedType(iloc(df_raw, r, c))

\* The events call k has logged, in order.
EventsOf(k) == [n \in 1..logged[k] |-> LogEvent(k, n)]

Occurrences(lines, record) == Cardinality({i \in 1..Len(lines) : lines[i] = record})

\* C30: every event of call k is once in the text log and once in the
\* JSON-lines log of call k's directory; no log file holds an event of a
\* call with another directory; and no log file of call k holds an event
\* of a later call, which could only have been written after call k ended.
C30_EventsOnceInOwnLogs ==
    /\ \A k \in 1..Len(run_dirs) : \A n \in 1..logged[k] :
          /\ Occurrences(txt_files[run_dirs[k]], LogEvent(k, n)) = 1
          /\ Occurrences(jsonl_files[run_dirs[k]], LogEvent(k, n)) = 1
    /\ \A d \in 1..Len(txt_files) :
          \A record \in Range(txt_files[d]) \cup Range(jsonl_files[d]) :
              /\ run_dirs[record.run] = d
              /\ \A k \in 1..Len(run_dirs) : run_dirs[k] = d => record.run <= k

=============================================================================
